---- MODULE Spec2Model ----
(***************************************************************************)
(* Bike weather web app: the forecast classifier                           *)
(* (analyze_biking_conditions), the destination ranker                     *)
(* (check_city_weather, find_travel_destinations, estimate_drive_time),    *)
(* the report (generate_email_report) and the daily batch                  *)
(* (send_daily_emails, send_email) of app.py.                              *)
(*                                                                         *)
(* Conventions.  A Python dict is a function with a domain of strings, so  *)
(* "k in d" is k \in DOMAIN d.  None is the record NoneVal.  A str that    *)
(* the code inspects is a sequence of one-character strings.  A timestamp  *)
(* is a whole number of local hours, so that fromtimestamp gives the date  *)
(* dt \div 24 and the hour dt % 24.  A temperature is an integer number   *)
(* of tenths of a degree, a distance an integer number of hundredths of a  *)
(* mile.                                                                   *)
(***************************************************************************)
EXTENDS Integers, Sequences, FiniteSets, TLC

VARIABLES
    provider,            \* what the weather provider does for the home lookup: an error or a JSON body
    weather_data,        \* the value get_weather_forecast returned for the home location
    home,                \* the rider's location: lat, lon
    profile,             \* the rider's preferences: min_temp_no_precip, min_temp_with_precip, ride_in_snow
    pc,                  \* position of the modelled run: "start", "fetched", "analyzed", "checked";
                         \* "drive", "estimated"; "select", "loop", "complete";
                         \* "idle", "welcome"
    biking_windows,      \* outcome of analyze_biking_conditions: [exc, val]
    city_result,         \* outcome of check_city_weather: [exc, val]
    rpc,                 \* position in find_travel_destinations: "drive", "fly", "sort", "done", "raised"
    idx,                 \* index of the next catalog entry of the current loop
    drive_destinations,  \* find_travel_destinations' local list
    fly_destinations,    \* find_travel_destinations' local list
    calls,               \* the external calls made so far, in order (provider lookups and sleeps)
    responses,           \* what the provider answered for each city looked up so far
    travel,              \* the value find_travel_destinations returned
    miles,               \* the whole number of miles estimate_drive_time is called with
    drive_time,          \* the str estimate_drive_time returned
    db,                  \* the subscribers table: its rows, by id
    subscribers,         \* send_daily_emails' local: the rows its SELECT fetched
    sub_idx,             \* index of the next row of the loop over subscribers
    mail_log,            \* what happened for each subscriber of the batch so far
    html,                \* the report generate_email_report returned for the current subscriber
    serial,              \* the last value the sequence of subscribers.id has given out
    web_log              \* the web requests handled so far: the form, the response, the mail sent

vars == <<home, provider, weather_data, profile, pc, biking_windows, city_result,
          rpc, idx, drive_destinations, fly_destinations, calls, responses, travel,
          miles, drive_time, db, subscribers, sub_idx, mail_log, html, serial, web_log>>

classifierVars == <<provider, weather_data, pc, biking_windows, city_result>>
classifierVarsButPc == <<provider, weather_data, biking_windows, city_result>>
rankerVars == <<rpc, idx, drive_destinations, fly_destinations, calls, responses, travel>>
driveVars == <<miles, drive_time>>
dailyVars == <<db, subscribers, sub_idx, mail_log, html>>
webVars == <<serial, web_log>>

----------------------------------------------------------------------------
(* Python values *)

NoneVal == [None |-> TRUE]

IsNone(x) == x = NoneVal

EmptyDict == [k \in {} |-> TRUE]

\* Python truthiness of an Optional[dict]: None and {} are falsy
Truthy(d) == ~IsNone(d) /\ DOMAIN d # {}

Has(d, k) == k \in DOMAIN d

Ok(v) == [exc |-> "none", val |-> v]

Raise(e) == [exc |-> e, val |-> NoneVal]

\* str.lower() on the letters the provider's condition names use
UpperLetters == <<"A","B","C","D","E","F","G","H","I","J","K","L","M",
                  "N","O","P","Q","R","S","T","U","V","W","X","Y","Z">>

LowerLetters == <<"a","b","c","d","e","f","g","h","i","j","k","l","m",
                  "n","o","p","q","r","s","t","u","v","w","x","y","z">>

LowerChar(c) ==
    IF \E i \in 1..Len(UpperLetters) : UpperLetters[i] = c
    THEN LowerLetters[CHOOSE i \in 1..Len(UpperLetters) : UpperLetters[i] = c]
    ELSE c

Lower(s) == [i \in 1..Len(s) |-> LowerChar(s[i])]

\* Python's "sub in s" for strings
Contains(sub, s) ==
    \E i \in 1..(Len(s) - Len(sub) + 1) : SubSeq(s, i, i + Len(sub) - 1) = sub

\* Python 3 round() of the value v / unit: to the nearest integer, ties to even
RoundTo(v, unit) ==
    LET f == v \div unit
        r == v % unit
    IN  IF 2 * r < unit THEN f
        ELSE IF 2 * r > unit THEN f + 1
        ELSE IF f % 2 = 0 THEN f ELSE f + 1

\* round() of a value given in tenths
Round(t) == RoundTo(t, 10)

\* round() of a distance given in hundredths of a mile
RoundMiles(c) == RoundTo(c, 100)

rain == <<"r","a","i","n">>
drizzle == <<"d","r","i","z","z","l","e">>
snow == <<"s","n","o","w">>

----------------------------------------------------------------------------
(* Configuration *)

MIN_TEMP_NO_PRECIP == 33
MIN_TEMP_WITH_PRECIP == 45
RIDE_START_HOUR == 6
RIDE_END_HOUR == 19

\* datetime.fromtimestamp(dt): the calendar date and the hour
DateOf(dt) == dt \div 24
HourOf(dt) == dt % 24

DayNames == <<"Thursday", "Friday", "Saturday", "Sunday", "Monday", "Tuesday", "Wednesday">>

\* strftime('%A') of a date (day 0 is a Thursday, as the epoch is)
DayName(date) == DayNames[(date % 7) + 1]

\* strftime('%I:%M %p')
TimeLabel(hour) ==
    [I |-> IF hour % 12 = 0 THEN 12 ELSE hour % 12, M |-> 0,
     p |-> IF hour < 12 THEN "AM" ELSE "PM"]

----------------------------------------------------------------------------
(* get_weather_forecast *)

\* variant: without the except clause the provider's failure propagates
GetWeatherForecastNoExcept(outcome) ==
    IF Has(outcome, "error") THEN Raise(outcome.error) ELSE Ok(outcome.json)

\* The provider either fails (a timeout, a connection error, an HTTP error
\* status) or answers with a JSON body.  The bare except turns every failure
\* into None.
get_weather_forecast(outcome) ==
    IF Has(outcome, "error") THEN Ok(NoneVal) ELSE Ok(outcome.json)

----------------------------------------------------------------------------
(* analyze_biking_conditions *)

\* variant: the upper end compared with > instead of >=
InRideWindowInclusiveEnd(hour) ==
    ~(hour < RIDE_START_HOUR \/ hour > RIDE_END_HOUR)

\* the complement of the "continue" test of the hour
InRideWindow(hour) ==
    ~(hour < RIDE_START_HOUR \/ hour >= RIDE_END_HOUR)

\* weather[0]['main'].lower() if weather else ''
WeatherMain(forecast) ==
    IF forecast.weather # <<>> THEN Lower(forecast.weather[1].main) ELSE <<>>

\* weather[0]['description'] if weather else ''
WeatherDesc(forecast) ==
    IF forecast.weather # <<>> THEN forecast.weather[1].description ELSE ""

\* variant: the operands of "in" exchanged (weather_main in 'rain')
PrecipOperandsSwapped(forecast, weather_main) ==
    LET afterRain ==
            IF \/ Contains(weather_main, rain)
               \/ Contains(weather_main, drizzle)
               \/ Has(forecast, "rain")
            THEN [has_precip |-> TRUE, precip_type |-> "rain"]
            ELSE [has_precip |-> FALSE, precip_type |-> "None"]
    IN  IF Contains(weather_main, snow) \/ Has(forecast, "snow")
        THEN [has_precip |-> TRUE, precip_type |-> "snow"]
        ELSE afterRain

\* variant: the two ifs in the opposite order, so the rain test overrides
PrecipRainLast(forecast, weather_main) ==
    LET afterSnow ==
            IF Contains(snow, weather_main) \/ Has(forecast, "snow")
            THEN [has_precip |-> TRUE, precip_type |-> "snow"]
            ELSE [has_precip |-> FALSE, precip_type |-> "None"]
    IN  IF \/ Contains(rain, weather_main)
           \/ Contains(drizzle, weather_main)
           \/ Has(forecast, "rain")
        THEN [has_precip |-> TRUE, precip_type |-> "rain"]
        ELSE afterSnow

\* the two ifs that set has_precip and precip_type ("None" stands for None):
\* the snow test comes second and overrides the rain test
Precip(forecast, weather_main) ==
    LET afterRain ==
            IF \/ Contains(rain, weather_main)
               \/ Contains(drizzle, weather_main)
               \/ Has(forecast, "rain")
            THEN [has_precip |-> TRUE, precip_type |-> "rain"]
            ELSE [has_precip |-> FALSE, precip_type |-> "None"]
    IN  IF Contains(snow, weather_main) \/ Has(forecast, "snow")
        THEN [has_precip |-> TRUE, precip_type |-> "snow"]
        ELSE afterRain

\* variant: the snow veto left out
IsSuitableNoSnowVeto(feels_like, has_precip, precip_type, min_temp_no_precip, min_temp_with_precip, ride_in_snow) ==
    LET min_temp == IF has_precip THEN min_temp_with_precip ELSE min_temp_no_precip
    IN  feels_like >= 10 * min_temp

\* variant: the two thresholds exchanged
IsSuitableThresholdsSwapped(feels_like, has_precip, precip_type, min_temp_no_precip, min_temp_with_precip, ride_in_snow) ==
    LET min_temp == IF has_precip THEN min_temp_no_precip ELSE min_temp_with_precip
        is_snow == precip_type = "snow"
    IN  feels_like >= 10 * min_temp /\ (~is_snow \/ ride_in_snow)

\* min_temp and is_suitable; feels_like is in tenths of a degree
IsSuitable(feels_like, has_precip, precip_type, min_temp_no_precip, min_temp_with_precip, ride_in_snow) ==
    LET min_temp == IF has_precip THEN min_temp_with_precip ELSE min_temp_no_precip
        is_snow == precip_type = "snow"
    IN  feels_like >= 10 * min_temp /\ (~is_snow \/ ride_in_snow)

\* the dict appended to day_windows for one retained forecast
Window(forecast, min_temp_no_precip, min_temp_with_precip, ride_in_snow) ==
    LET hour == HourOf(forecast.dt)
        feels_like == forecast.main.feels_like
        precip == Precip(forecast, WeatherMain(forecast))
    IN  [time |-> TimeLabel(hour),
         hour |-> hour,
         feels_like |-> Round(feels_like),
         has_precip |-> precip.has_precip,
         precip_type |-> precip.precip_type,
         weather |-> WeatherDesc(forecast),
         is_suitable |-> IsSuitable(feels_like, precip.has_precip, precip.precip_type,
                                    min_temp_no_precip, min_temp_with_precip, ride_in_snow)]

\* a subscript of the window loop fails with KeyError
WindowRaises(forecast) ==
    \/ ~Has(forecast, "main")
    \/ ~Has(forecast.main, "feels_like")
    \/ ~Has(forecast, "weather")
    \/ /\ forecast.weather # <<>>
       /\ ~(Has(forecast.weather[1], "main") /\ Has(forecast.weather[1], "description"))

\* variant: the dates kept in calendar order instead of insertion order
RECURSIVE GroupByDateSorted(_, _, _)
GroupByDateSorted(list, i, daily_forecasts) ==
    IF i > Len(list) THEN daily_forecasts
    ELSE LET date_str == DateOf(list[i].dt)
             known == {k \in 1..Len(daily_forecasts) : daily_forecasts[k].date = date_str}
         IN  IF known = {}
             THEN GroupByDateSorted(list, i + 1,
                      SelectSeq(daily_forecasts, LAMBDA g : g.date < date_str)
                        \o <<[date |-> date_str, forecasts |-> <<list[i]>>]>>
                        \o SelectSeq(daily_forecasts, LAMBDA g : g.date > date_str))
             ELSE LET k == CHOOSE k \in known : TRUE
                  IN  GroupByDateSorted(list, i + 1,
                          [daily_forecasts EXCEPT ![k].forecasts = Append(@, list[i])])

\* the first loop: daily_forecasts, a dict in insertion order, as the
\* sequence of its (date, forecasts) items
RECURSIVE GroupByDate(_, _, _)
GroupByDate(list, i, daily_forecasts) ==
    IF i > Len(list) THEN daily_forecasts
    ELSE LET date_str == DateOf(list[i].dt)
             known == {k \in 1..Len(daily_forecasts) : daily_forecasts[k].date = date_str}
         IN  IF known = {}
             THEN GroupByDate(list, i + 1,
                      Append(daily_forecasts, [date |-> date_str, forecasts |-> <<list[i]>>]))
             ELSE LET k == CHOOSE k \in known : TRUE
                  IN  GroupByDate(list, i + 1,
                          [daily_forecasts EXCEPT ![k].forecasts = Append(@, list[i])])

\* day_windows of one date
DayWindows(forecasts, min_temp_no_precip, min_temp_with_precip, ride_in_snow) ==
    LET kept == SelectSeq(forecasts, LAMBDA f : InRideWindow(HourOf(f.dt)))
    IN  [i \in 1..Len(kept) |->
            Window(kept[i], min_temp_no_precip, min_temp_with_precip, ride_in_snow)]

SuitableCount(day_windows) ==
    Cardinality({i \in 1..Len(day_windows) : day_windows[i].is_suitable})

\* variant: without "if day_windows:", a date with no retained sample is
\* appended too
SuitableWindowsKeepEmpty(daily_forecasts, min_temp_no_precip, min_temp_with_precip, ride_in_snow) ==
    LET day(g) ==
            LET day_windows == DayWindows(g.forecasts, min_temp_no_precip,
                                          min_temp_with_precip, ride_in_snow)
                suitable_count == SuitableCount(day_windows)
            IN  [date |-> g.date,
                 day_name |-> DayName(g.date),
                 windows |-> day_windows,
                 has_suitable_time |-> suitable_count > 0,
                 suitable_count |-> suitable_count]
    IN  [k \in 1..Len(daily_forecasts) |-> day(daily_forecasts[k])]

\* the second loop: one entry per date whose day_windows is not empty
SuitableWindows(daily_forecasts, min_temp_no_precip, min_temp_with_precip, ride_in_snow) ==
    LET day(g) ==
            LET day_windows == DayWindows(g.forecasts, min_temp_no_precip,
                                          min_temp_with_precip, ride_in_snow)
                suitable_count == SuitableCount(day_windows)
            IN  [date |-> g.date,
                 day_name |-> DayName(g.date),
                 windows |-> day_windows,
                 has_suitable_time |-> suitable_count > 0,
                 suitable_count |-> suitable_count]
        all == [k \in 1..Len(daily_forecasts) |-> day(daily_forecasts[k])]
    IN  SelectSeq(all, LAMBDA d : d.windows # <<>>)

\* variant: the guard tests only the 'list' key, so None reaches "in"
AnalyzeWithoutNoneGuard(data, min_temp_no_precip, min_temp_with_precip, ride_in_snow) ==
    IF IsNone(data) THEN Raise("TypeError")
    ELSE IF ~Has(data, "list") THEN Ok(<<>>)
    ELSE IF \E i \in 1..Len(data.list) : ~Has(data.list[i], "dt") THEN Raise("KeyError")
    ELSE IF \E i \in 1..Len(data.list) :
                InRideWindow(HourOf(data.list[i].dt)) /\ WindowRaises(data.list[i])
         THEN Raise("KeyError")
    ELSE Ok(SuitableWindows(GroupByDate(data.list, 1, <<>>),
                            min_temp_no_precip, min_temp_with_precip, ride_in_snow))

analyze_biking_conditions(data, min_temp_no_precip, min_temp_with_precip, ride_in_snow) ==
    IF ~Truthy(data) \/ ~Has(data, "list") THEN Ok(<<>>)
    ELSE IF \E i \in 1..Len(data.list) : ~Has(data.list[i], "dt") THEN Raise("KeyError")
    ELSE IF \E i \in 1..Len(data.list) :
                InRideWindow(HourOf(data.list[i].dt)) /\ WindowRaises(data.list[i])
         THEN Raise("KeyError")
    ELSE Ok(SuitableWindows(GroupByDate(data.list, 1, <<>>),
                            min_temp_no_precip, min_temp_with_precip, ride_in_snow))

----------------------------------------------------------------------------
(* The candidate catalog: coordinates in ten-thousandths of a degree *)

AIRPORT_CITIES == <<
    [city |-> "Philadelphia", state |-> "PA", airport |-> "PHL", lat |-> 399526, lon |-> -751652],
    [city |-> "Washington", state |-> "DC", airport |-> "DCA", lat |-> 389072, lon |-> -770369],
    [city |-> "Boston", state |-> "MA", airport |-> "BOS", lat |-> 423601, lon |-> -710589],
    [city |-> "Charlotte", state |-> "NC", airport |-> "CLT", lat |-> 352271, lon |-> -808431],
    [city |-> "Atlanta", state |-> "GA", airport |-> "ATL", lat |-> 337490, lon |-> -843880],
    [city |-> "Miami", state |-> "FL", airport |-> "MIA", lat |-> 257617, lon |-> -801918],
    [city |-> "Tampa", state |-> "FL", airport |-> "TPA", lat |-> 279506, lon |-> -824572],
    [city |-> "Orlando", state |-> "FL", airport |-> "MCO", lat |-> 285383, lon |-> -813792],
    [city |-> "Raleigh", state |-> "NC", airport |-> "RDU", lat |-> 357796, lon |-> -786382],
    [city |-> "Richmond", state |-> "VA", airport |-> "RIC", lat |-> 375407, lon |-> -774360] >>

DRIVEABLE_CITIES == <<
    [city |-> "Baltimore", state |-> "MD", lat |-> 392904, lon |-> -766122],
    [city |-> "Annapolis", state |-> "MD", lat |-> 389784, lon |-> -764922],
    [city |-> "Rehoboth Beach", state |-> "DE", lat |-> 387210, lon |-> -750760],
    [city |-> "Cape May", state |-> "NJ", lat |-> 389351, lon |-> -749060],
    [city |-> "Atlantic City", state |-> "NJ", lat |-> 393643, lon |-> -744229],
    [city |-> "Lancaster", state |-> "PA", lat |-> 400379, lon |-> -763055],
    [city |-> "Gettysburg", state |-> "PA", lat |-> 398309, lon |-> -772311],
    [city |-> "Harrisburg", state |-> "PA", lat |-> 402732, lon |-> -768867],
    [city |-> "Wilmington", state |-> "DE", lat |-> 397391, lon |-> -755398],
    [city |-> "Norfolk", state |-> "VA", lat |-> 368508, lon |-> -762859],
    [city |-> "Virginia Beach", state |-> "VA", lat |-> 368529, lon |-> -759780],
    [city |-> "Charlottesville", state |-> "VA", lat |-> 380293, lon |-> -784767],
    [city |-> "Asheville", state |-> "NC", lat |-> 355951, lon |-> -825515],
    [city |-> "Outer Banks", state |-> "NC", lat |-> 359582, lon |-> -756201],
    [city |-> "Myrtle Beach", state |-> "SC", lat |-> 336891, lon |-> -788867],
    [city |-> "Charleston", state |-> "SC", lat |-> 327765, lon |-> -799311],
    [city |-> "Savannah", state |-> "GA", lat |-> 320809, lon |-> -810912],
    [city |-> "Providence", state |-> "RI", lat |-> 418240, lon |-> -714128],
    [city |-> "Portland", state |-> "ME", lat |-> 436591, lon |-> -702568],
    [city |-> "Burlington", state |-> "VT", lat |-> 444759, lon |-> -732121] >>

----------------------------------------------------------------------------
(* calculate_distance *)

\* the home locations of the modelled riders (Eastchester NY, Charlotte NC)
Homes == { [lat |-> 409584, lon |-> -738085], [lat |-> 352271, lon |-> -808431] }

\* The haversine formula is not integer arithmetic: the table holds the value
\* the function returns, in hundredths of a mile (at this resolution
\* round() and estimate_drive_time give what they give for the float), for
\* every home of Homes and every catalog entry.
HaversineTable ==
      <<409584, -738085, 392904, -766122>> :> 18767 @@
      <<409584, -738085, 389784, -764922>> :> 19725 @@
      <<409584, -738085, 387210, -750760>> :> 16859 @@
      <<409584, -738085, 389351, -749060>> :> 15141 @@
      <<409584, -738085, 393643, -744229>> :> 11483 @@
      <<409584, -738085, 400379, -763055>> :> 14580 @@
      <<409584, -738085, 398309, -772311>> :> 19622 @@
      <<409584, -738085, 402732, -768867>> :> 16824 @@
      <<409584, -738085, 397391, -755398>> :> 12413 @@
      <<409584, -738085, 368508, -762859>> :> 31349 @@
      <<409584, -738085, 368529, -759780>> :> 30670 @@
      <<409584, -738085, 380293, -784767>> :> 32073 @@
      <<409584, -738085, 355951, -825515>> :> 60134 @@
      <<409584, -738085, 359582, -756201>> :> 35911 @@
      <<409584, -738085, 336891, -788867>> :> 57433 @@
      <<409584, -738085, 327765, -799311>> :> 65849 @@
      <<409584, -738085, 320809, -810912>> :> 73408 @@
      <<409584, -738085, 418240, -714128>> :> 13783 @@
      <<409584, -738085, 436591, -702568>> :> 26026 @@
      <<409584, -738085, 444759, -732121>> :> 24493 @@
      <<409584, -738085, 399526, -751652>> :> 9959 @@
      <<409584, -738085, 389072, -770369>> :> 22211 @@
      <<409584, -738085, 423601, -710589>> :> 17182 @@
      <<409584, -738085, 352271, -808431>> :> 55023 @@
      <<409584, -738085, 337490, -843880>> :> 76436 @@
      <<409584, -738085, 257617, -801918>> :> 111196 @@
      <<409584, -738085, 279506, -824572>> :> 102372 @@
      <<409584, -738085, 285383, -813792>> :> 95885 @@
      <<409584, -738085, 357796, -786382>> :> 44313 @@
      <<409584, -738085, 375407, -774360>> :> 30563 @@
      <<352271, -808431, 392904, -766122>> :> 36455 @@
      <<352271, -808431, 389784, -764922>> :> 35301 @@
      <<352271, -808431, 387210, -750760>> :> 39940 @@
      <<352271, -808431, 389351, -749060>> :> 41548 @@
      <<352271, -808431, 393643, -744229>> :> 45395 @@
      <<352271, -808431, 400379, -763055>> :> 41478 @@
      <<352271, -808431, 398309, -772311>> :> 37458 @@
      <<352271, -808431, 402732, -768867>> :> 41013 @@
      <<352271, -808431, 397391, -755398>> :> 42616 @@
      <<352271, -808431, 368508, -762859>> :> 27821 @@
      <<352271, -808431, 368529, -759780>> :> 29408 @@
      <<352271, -808431, 380293, -784767>> :> 23388 @@
      <<352271, -808431, 355951, -825515>> :> 9951 @@
      <<352271, -808431, 359582, -756201>> :> 29775 @@
      <<352271, -808431, 336891, -788867>> :> 15400 @@
      <<352271, -808431, 327765, -799311>> :> 17720 @@
      <<352271, -808431, 320809, -810912>> :> 21786 @@
      <<352271, -808431, 418240, -714128>> :> 68307 @@
      <<352271, -808431, 436591, -702568>> :> 81022 @@
      <<352271, -808431, 444759, -732121>> :> 75569 @@
      <<352271, -808431, 399526, -751652>> :> 45064 @@
      <<352271, -808431, 389072, -770369>> :> 32963 @@
      <<352271, -808431, 423601, -710589>> :> 72060 @@
      <<352271, -808431, 352271, -808431>> :> 0 @@
      <<352271, -808431, 337490, -843880>> :> 22624 @@
      <<352271, -808431, 257617, -801918>> :> 65518 @@
      <<352271, -808431, 279506, -824572>> :> 51166 @@
      <<352271, -808431, 285383, -813792>> :> 46325 @@
      <<352271, -808431, 357796, -786382>> :> 12977 @@
      <<352271, -808431, 375407, -774360>> :> 24791

calculate_distance(lat1, lon1, lat2, lon2) == HaversineTable[<<lat1, lon1, lat2, lon2>>]

----------------------------------------------------------------------------
(* estimate_drive_time *)

\* A Python float is an IEEE 754 binary64: 53 significant binary digits, each
\* result rounded to the nearest such number, ties to even.  A non-negative
\* float is held as its integer part and its binary digits after the point.
SignificantBits == 53

\* the number of binary digits of a natural number
RECURSIVE BitLength(_)
BitLength(n) == IF n = 0 THEN 0 ELSE 1 + BitLength(n \div 2)

\* the zero digits after the point before the first one digit of r / den,
\* for 0 < r < den
RECURSIVE LeadingZeros(_, _)
LeadingZeros(r, den) == IF 2 * r >= den THEN 0 ELSE 1 + LeadingZeros(2 * r, den)

\* the first n binary digits after the point of r / den, for 0 <= r < den,
\* and the remainder they leave (long division, the digits taken in two
\* halves)
RECURSIVE FractionBits(_, _, _)
FractionBits(r, den, n) ==
    IF n = 0 THEN [bits |-> <<>>, rem |-> r]
    ELSE IF n = 1
    THEN IF 2 * r >= den THEN [bits |-> <<1>>, rem |-> 2 * r - den]
                         ELSE [bits |-> <<0>>, rem |-> 2 * r]
    ELSE LET left == FractionBits(r, den, n \div 2)
             right == FractionBits(left.rem, den, n - n \div 2)
         IN  [bits |-> left.bits \o right.bits, rem |-> right.rem]

\* one unit in the last place added to a digit string: the last zero digit
\* becomes one and the ones after it zero; all ones carry out
Increment(bits) ==
    LET zeros == {i \in 1..Len(bits) : bits[i] = 0}
        last == CHOOSE i \in zeros : \A k \in zeros : k <= i
    IN  IF zeros = {}
        THEN [bits |-> [i \in 1..Len(bits) |-> 0], carry |-> 1]
        ELSE [bits |-> [i \in 1..Len(bits) |->
                           IF i < last THEN bits[i] ELSE IF i = last THEN 1 ELSE 0],
              carry |-> 0]

\* the digits after the point a float with this integer part keeps, the
\* first one digit of its fraction coming after `zeros` zero digits
FractionDigits(int, zeros) ==
    IF int > 0 THEN SignificantBits - BitLength(int) ELSE zeros + SignificantBits

\* the float num / den of two natural numbers (Python's true division)
FloatDiv(num, den) ==
    LET int == num \div den
        r == num % den
    IN  IF r = 0 THEN [int |-> int, frac |-> <<>>]
        ELSE LET n == FractionDigits(int, LeadingZeros(r, den))
                 q == FractionBits(r, den, n)
                 up == \/ 2 * q.rem > den
                       \/ 2 * q.rem = den /\ q.bits[n] = 1
                 rounded == IF up THEN Increment(q.bits) ELSE [bits |-> q.bits, carry |-> 0]
             IN  [int |-> int + rounded.carry, frac |-> rounded.bits]

\* the digits of bits * k + carry, carry counted in units of the last place,
\* and the integer part carried out (schoolbook multiplication, the digits
\* taken in two halves, the right half first, its carry going into the left
\* half)
RECURSIVE TimesBits(_, _, _)
TimesBits(bits, k, carry) ==
    IF bits = <<>> THEN [bits |-> <<>>, carry |-> carry]
    ELSE IF Len(bits) = 1
    THEN LET v == k * bits[1] + carry
         IN  [bits |-> <<v % 2>>, carry |-> v \div 2]
    ELSE LET half == Len(bits) \div 2
             right == TimesBits(SubSeq(bits, half + 1, Len(bits)), k, carry)
             left == IF right.carry = 0
                     THEN TimesBits(SubSeq(bits, 1, half), k, 0)
                     ELSE TimesBits(SubSeq(bits, 1, half), k, right.carry)
         IN  [bits |-> left.bits \o right.bits, carry |-> left.carry]

\* an exact value rounded to the nearest float
RoundFloat(x) ==
    LET n == Len(x.frac)
        ones == {i \in 1..n : x.frac[i] = 1}
        first == CHOOSE i \in ones : \A k \in ones : i <= k
        keep == IF x.int = 0 /\ ones = {} THEN 0
                ELSE FractionDigits(x.int, IF x.int > 0 THEN 0 ELSE first - 1)
    IN  IF keep >= n THEN x
        ELSE LET kept == SubSeq(x.frac, 1, keep)
                 up == /\ x.frac[keep + 1] = 1
                       /\ \/ \E i \in (keep + 2)..n : x.frac[i] = 1
                          \/ kept[keep] = 1
                 rounded == IF up THEN Increment(kept) ELSE [bits |-> kept, carry |-> 0]
             IN  [int |-> x.int + rounded.carry, frac |-> rounded.bits]

\* the float x * k for a float x and a natural number k
FloatTimes(x, k) ==
    LET product == TimesBits(x.frac, k, 0)
    IN  RoundFloat([int |-> k * x.int + product.carry, frac |-> product.bits])

\* x - int(x): exact, as it has no more significant digits than x
FloatFraction(x) == [int |-> 0, frac |-> x.frac]

\* the three f-strings of the return
FormatDriveTime(h, m) ==
    IF h = 0 THEN ToString(m) \o " min"
    ELSE IF m = 0 THEN ToString(h) \o " hr"
    ELSE ToString(h) \o " hr " \o ToString(m) \o " min"

\* distance_miles is in hundredths of a mile, so hours = distance_miles / 50
\* is the float of distance_miles / (100 * 50)
estimate_drive_time(distance_miles) ==
    LET hours == FloatDiv(distance_miles, 100 * 50)
        h == hours.int
        m == FloatTimes(FloatFraction(hours), 60).int
    IN  FormatDriveTime(h, m)

----------------------------------------------------------------------------
(* check_city_weather *)

\* a subscript of check_city_weather's loop body fails with KeyError
CityItemRaises(item) ==
    \/ ~Has(item, "main")
    \/ ~Has(item.main, "feels_like")
    \/ ~Has(item, "weather")
    \/ item.weather # <<>> /\ ~Has(item.weather[1], "main")

\* is_suitable of one retained item: the CONFIG thresholds, snow never rideable
CityItemSuitable(item) ==
    LET feels_like == item.main.feels_like
        weather_main == IF item.weather # <<>> THEN Lower(item.weather[1].main) ELSE <<>>
        has_precip == \/ Contains(rain, weather_main)
                      \/ Contains(drizzle, weather_main)
                      \/ Contains(snow, weather_main)
        is_snow == Contains(snow, weather_main)
        min_temp == IF has_precip THEN MIN_TEMP_WITH_PRECIP ELSE MIN_TEMP_NO_PRECIP
    IN  feels_like >= 10 * min_temp /\ ~is_snow

\* variant: a later sample raises best_temp only when it is suitable
RECURSIVE DailyBestSuitableOnly(_, _, _)
DailyBestSuitableOnly(list, i, daily_best) ==
    IF i > Len(list) THEN daily_best
    ELSE LET item == list[i]
             date_str == DateOf(item.dt)
             hour == HourOf(item.dt)
             known == {k \in 1..Len(daily_best) : daily_best[k].date = date_str}
         IN  IF hour < RIDE_START_HOUR \/ hour >= RIDE_END_HOUR
             THEN DailyBestSuitableOnly(list, i + 1, daily_best)
             ELSE IF known = {}
             THEN DailyBestSuitableOnly(list, i + 1,
                      Append(daily_best, [date |-> date_str,
                                          day_name |-> DayName(date_str),
                                          best_temp |-> item.main.feels_like,
                                          has_suitable |-> CityItemSuitable(item)]))
             ELSE LET k == CHOOSE k \in known : TRUE
                  IN  DailyBestSuitableOnly(list, i + 1,
                          [daily_best EXCEPT
                              ![k].best_temp = IF CityItemSuitable(item) /\ item.main.feels_like > @
                                               THEN item.main.feels_like ELSE @,
                              ![k].has_suitable = IF CityItemSuitable(item) THEN TRUE ELSE @])

\* the loop over weather_data['list']: daily_best, a dict in insertion order,
\* as the sequence of its values
RECURSIVE DailyBest(_, _, _)
DailyBest(list, i, daily_best) ==
    IF i > Len(list) THEN daily_best
    ELSE LET item == list[i]
             date_str == DateOf(item.dt)
             hour == HourOf(item.dt)
             known == {k \in 1..Len(daily_best) : daily_best[k].date = date_str}
         IN  IF hour < RIDE_START_HOUR \/ hour >= RIDE_END_HOUR
             THEN DailyBest(list, i + 1, daily_best)
             ELSE IF known = {}
             THEN DailyBest(list, i + 1,
                      Append(daily_best, [date |-> date_str,
                                          day_name |-> DayName(date_str),
                                          best_temp |-> item.main.feels_like,
                                          has_suitable |-> CityItemSuitable(item)]))
             ELSE LET k == CHOOSE k \in known : TRUE
                  IN  DailyBest(list, i + 1,
                          [daily_best EXCEPT
                              ![k].best_temp = IF item.main.feels_like > @
                                               THEN item.main.feels_like ELSE @,
                              ![k].has_suitable = IF CityItemSuitable(item) THEN TRUE ELSE @])

\* max() of a non-empty set of numbers
Max(S) == CHOOSE m \in S : \A x \in S : x <= m

\* variant: the test of suitable_count and the filter of max() left out
CityResultUnfiltered(city_info, home_lat, home_lon, daily_best) ==
    LET suitable == {k \in 1..Len(daily_best) : daily_best[k].has_suitable}
        distance == calculate_distance(home_lat, home_lon, city_info.lat, city_info.lon)
    IN  IF daily_best # <<>>
        THEN [city |-> city_info.city,
              state |-> city_info.state,
              airport |-> IF Has(city_info, "airport") THEN city_info.airport ELSE "None",
              distance_miles |-> RoundMiles(distance),
              drive_time |-> estimate_drive_time(distance),
              suitable_days |-> Cardinality(suitable),
              best_temp |-> Max({daily_best[k].best_temp : k \in 1..Len(daily_best)})]
        ELSE NoneVal

\* the return statement of check_city_weather, from daily_best
CityResult(city_info, home_lat, home_lon, daily_best) ==
    LET suitable == {k \in 1..Len(daily_best) : daily_best[k].has_suitable}
        suitable_count == Cardinality(suitable)
        distance == calculate_distance(home_lat, home_lon, city_info.lat, city_info.lon)
    IN  IF suitable_count > 0
        THEN [city |-> city_info.city,
              state |-> city_info.state,
              airport |-> IF Has(city_info, "airport") THEN city_info.airport ELSE "None",
              distance_miles |-> RoundMiles(distance),
              drive_time |-> estimate_drive_time(distance),
              suitable_days |-> suitable_count,
              best_temp |-> Max({daily_best[k].best_temp : k \in suitable})]
        ELSE NoneVal

\* check_city_weather, given what the provider does for this city's lookup
check_city_weather(city_info, home_lat, home_lon, outcome) ==
    LET fetched == get_weather_forecast(outcome)
        data == fetched.val
    IN  IF fetched.exc # "none" THEN Raise(fetched.exc)
        ELSE IF ~Truthy(data) \/ ~Has(data, "list") THEN Ok(NoneVal)
        ELSE IF \E i \in 1..Len(data.list) : ~Has(data.list[i], "dt") THEN Raise("KeyError")
        ELSE IF \E i \in 1..Len(data.list) :
                    InRideWindow(HourOf(data.list[i].dt)) /\ CityItemRaises(data.list[i])
             THEN Raise("KeyError")
        ELSE Ok(CityResult(city_info, home_lat, home_lon, DailyBest(data.list, 1, <<>>)))

----------------------------------------------------------------------------
(* Inputs: forecast samples, documents, profiles *)

Clear == <<"C","l","e","a","r">>
Rain == <<"R","a","i","n">>
Drizzle == <<"D","r","i","z","z","l","e">>
Snow == <<"S","n","o","w">>

\* one entry of the provider's 'weather' list
Condition(main, description) == [main |-> main, description |-> description]

\* a forecast sample with the fields every sample carries
Sample(dt, feels_like, weather) ==
    [dt |-> dt, main |-> [feels_like |-> feels_like], weather |-> weather]

\* the optional precipitation-volume fields of a sample
WithRain(sample) == sample @@ [rain |-> [h3 |-> 5]]
WithSnow(sample) == sample @@ [snow |-> [h3 |-> 5]]

WeatherLists ==
    { <<>>,
      <<Condition(Clear, "clear sky")>>,
      <<Condition(Rain, "light rain")>>,
      <<Condition(Drizzle, "drizzle")>>,
      <<Condition(Snow, "light snow")>> }

\* hours around both ends of the ride window
EdgeTimes == {5, 6, 18, 19}

\* feels-like values, in tenths, around both default thresholds
EdgeTemps == {325, 330, 446, 450}

PlainSamples == {Sample(dt, t, w) : dt \in EdgeTimes, t \in EdgeTemps, w \in WeatherLists}

\* a sample the provider sent without its 'weather' field
NoWeather(dt, feels_like) == [dt |-> dt, main |-> [feels_like |-> feels_like]]

\* a sample the provider sent without its 'dt' field
NoDt(feels_like, weather) == [main |-> [feels_like |-> feels_like], weather |-> weather]

\* a sample the provider sent without its 'main' field
NoMain(dt, weather) == [dt |-> dt, weather |-> weather]

\* samples of a malformed payload: each lacks one of 'dt', 'main', 'weather'
MalformedSamples ==
    { NoWeather(12, 450),
      NoDt(450, <<Condition(Clear, "clear sky")>>),
      NoMain(12, <<Condition(Clear, "clear sky")>>),
      NoMain(5, <<Condition(Clear, "clear sky")>>) }

\* every sample a one-sample document is built from
AllSamples ==
    PlainSamples
      \cup {WithRain(x) : x \in PlainSamples}
      \cup {WithSnow(x) : x \in PlainSamples}
      \cup {WithSnow(WithRain(x)) : x \in PlainSamples}
      \cup MalformedSamples

\* the samples longer documents are built from: two dates, both sides of
\* the window, every precipitation type
CoreSamples ==
    { Sample(12, 330, <<Condition(Clear, "clear sky")>>),
      Sample(15, 446, <<Condition(Rain, "light rain")>>),
      Sample(5, 450, <<Condition(Clear, "clear sky")>>),
      Sample(18, 450, <<Condition(Snow, "light snow")>>),
      Sample(24 + 6, 325, <<Condition(Clear, "clear sky")>>),
      Sample(24 + 19, 450, <<Condition(Clear, "clear sky")>>),
      WithRain(Sample(24 + 12, 450, <<Condition(Clear, "clear sky")>>)),
      Sample(9, 450, <<Condition(Drizzle, "drizzle")>>) }

MaxSamples == 3

\* sequences over S of length 1..n
RECURSIVE SeqsUpTo(_, _)
SeqsUpTo(S, n) ==
    IF n = 0 THEN {}
    ELSE LET shorter == SeqsUpTo(S, n - 1)
         IN  {<<x>> : x \in S} \cup shorter \cup {Append(q, x) : q \in shorter, x \in S}

Forecast(list) == [cod |-> "200", list |-> list]

\* the JSON bodies the provider answers with
Documents ==
    {EmptyDict, [cod |-> "401"], Forecast(<<>>)}
      \cup {Forecast(<<x>>) : x \in AllSamples}
      \cup {Forecast(q) : q \in SeqsUpTo(CoreSamples, MaxSamples)}

ProviderError == [error |-> "RequestException"]

ProviderOutcomes == {ProviderError} \cup {[json |-> d] : d \in Documents}

Thresholds == {MIN_TEMP_NO_PRECIP, MIN_TEMP_WITH_PRECIP}

Profiles ==
    [min_temp_no_precip : Thresholds, min_temp_with_precip : Thresholds, ride_in_snow : BOOLEAN]

\* what the provider does for a candidate city during a ranking pass: a
\* failure, a forecast with no suitable sample (too early, too cold, snow),
\* a forecast with two suitable days
RankOutcomes ==
    { ProviderError,
      [json |-> Forecast(<<Sample(5, 450, <<Condition(Clear, "clear sky")>>),
                           Sample(12, 325, <<Condition(Clear, "clear sky")>>),
                           Sample(18, 450, <<Condition(Snow, "light snow")>>)>>)],
      [json |-> Forecast(<<Sample(12, 330, <<Condition(Clear, "clear sky")>>),
                           Sample(15, 446, <<Condition(Rain, "light rain")>>),
                           Sample(24 + 12, 450, <<Condition(Clear, "clear sky")>>)>>)] }

----------------------------------------------------------------------------
(* find_travel_destinations *)

NumDrive == 4
NumFly == 4

\* the catalog entries a modelled ranking pass walks: a prefix of each list
DriveCatalog == SubSeq(DRIVEABLE_CITIES, 1, NumDrive)
FlyCatalog == SubSeq(AIRPORT_CITIES, 1, NumFly)

\* list.sort(key=lambda x: x['distance_miles']): stable, ascending
RECURSIVE InsertByDistance(_, _)
InsertByDistance(sorted, x) ==
    IF sorted = <<>> THEN <<x>>
    ELSE IF sorted[Len(sorted)].distance_miles <= x.distance_miles
         THEN Append(sorted, x)
         ELSE Append(InsertByDistance(SubSeq(sorted, 1, Len(sorted) - 1), x),
                     sorted[Len(sorted)])

\* variant: the list is left in catalog order
NotSorted(destinations) == destinations

RECURSIVE SortByDistance(_)
SortByDistance(destinations) ==
    IF destinations = <<>> THEN <<>>
    ELSE InsertByDistance(SortByDistance(SubSeq(destinations, 1, Len(destinations) - 1)),
                          destinations[Len(destinations)])

\* destinations[:3]
Top3(destinations) ==
    SubSeq(destinations, 1, IF Len(destinations) < 3 THEN Len(destinations) ELSE 3)

Lookup(city_info) == [op |-> "get_weather_forecast", city |-> city_info.city]
Sleep(city_info) == [op |-> "sleep", city |-> city_info.city]

\* variant: time.sleep inside "if result:", so no delay follows a lookup
\* that gave no Destination Result
LoopBodySleepAfterResult(tier, catalog, destinations, next_rpc) ==
    /\ idx <= Len(catalog)
    /\ \E outcome \in RankOutcomes :
          LET city == catalog[idx]
          IN  \E result \in {check_city_weather(city, home.lat, home.lon, outcome)} :
              IF result.exc # "none"
              THEN /\ rpc' = "raised"
                   /\ calls' = Append(calls, Lookup(city))
                   /\ responses' = Append(responses,
                          [tier |-> tier, city |-> city.city, outcome |-> outcome,
                           result |-> result.val])
                   /\ UNCHANGED <<idx, drive_destinations, fly_destinations>>
              ELSE /\ calls' = IF IsNone(result.val)
                               THEN Append(calls, Lookup(city))
                               ELSE calls \o <<Lookup(city), Sleep(city)>>
                   /\ responses' = Append(responses,
                          [tier |-> tier, city |-> city.city, outcome |-> outcome,
                           result |-> result.val])
                   /\ IF tier = "drive"
                      THEN /\ drive_destinations' =
                                 IF IsNone(result.val) THEN destinations
                                 ELSE Append(destinations, result.val)
                           /\ UNCHANGED fly_destinations
                      ELSE /\ fly_destinations' =
                                 IF IsNone(result.val) THEN destinations
                                 ELSE Append(destinations, result.val)
                           /\ UNCHANGED drive_destinations
                   /\ IF idx = Len(catalog)
                      THEN rpc' = next_rpc /\ idx' = 1
                      ELSE rpc' = rpc /\ idx' = idx + 1
    /\ UNCHANGED travel

\* one iteration of a catalog loop: the lookup, the append, the sleep
LoopBody(tier, catalog, destinations, next_rpc) ==
    /\ idx <= Len(catalog)
    /\ \E outcome \in RankOutcomes :
          LET city == catalog[idx]
          IN  \E result \in {check_city_weather(city, home.lat, home.lon, outcome)} :
              IF result.exc # "none"
              THEN /\ rpc' = "raised"
                   /\ calls' = Append(calls, Lookup(city))
                   /\ responses' = Append(responses,
                          [tier |-> tier, city |-> city.city, outcome |-> outcome,
                           result |-> result.val])
                   /\ UNCHANGED <<idx, drive_destinations, fly_destinations>>
              ELSE /\ calls' = calls \o <<Lookup(city), Sleep(city)>>
                   /\ responses' = Append(responses,
                          [tier |-> tier, city |-> city.city, outcome |-> outcome,
                           result |-> result.val])
                   /\ IF tier = "drive"
                      THEN /\ drive_destinations' =
                                 IF IsNone(result.val) THEN destinations
                                 ELSE Append(destinations, result.val)
                           /\ UNCHANGED fly_destinations
                      ELSE /\ fly_destinations' =
                                 IF IsNone(result.val) THEN destinations
                                 ELSE Append(destinations, result.val)
                           /\ UNCHANGED drive_destinations
                   /\ IF idx = Len(catalog)
                      THEN rpc' = next_rpc /\ idx' = 1
                      ELSE rpc' = rpc /\ idx' = idx + 1
    /\ UNCHANGED travel

\* for city in DRIVEABLE_CITIES
DriveStep ==
    /\ rpc = "drive"
    /\ LoopBody("drive", DriveCatalog, drive_destinations, "fly")
    /\ UNCHANGED <<classifierVars, home, profile, driveVars, dailyVars, webVars>>

\* for city in AIRPORT_CITIES
FlyStep ==
    /\ rpc = "fly"
    /\ LoopBody("fly", FlyCatalog, fly_destinations, "sort")
    /\ UNCHANGED <<classifierVars, home, profile, driveVars, dailyVars, webVars>>

\* the two sorts and the return
SortReturn ==
    /\ rpc = "sort"
    /\ drive_destinations' = SortByDistance(drive_destinations)
    /\ fly_destinations' = SortByDistance(fly_destinations)
    /\ travel' = [drive |-> Top3(drive_destinations'), fly |-> Top3(fly_destinations')]
    /\ rpc' = "done"
    /\ UNCHANGED <<idx, calls, responses, classifierVars, home, profile, driveVars, dailyVars, webVars>>

----------------------------------------------------------------------------
(* A report run: the forecast is fetched, classified under the rider's
   profile, and the same provider answer is judged as a candidate city *)

\* weather_data = get_weather_forecast(lat, lon)
Fetch ==
    /\ pc = "start"
    /\ weather_data' = get_weather_forecast(provider).val
    /\ pc' = "fetched"
    /\ UNCHANGED <<home, provider, profile, biking_windows, city_result, rankerVars,
                   driveVars, dailyVars, webVars>>

\* biking_windows = analyze_biking_conditions(weather_data, ...)
Analyze ==
    /\ pc = "fetched"
    /\ biking_windows' = analyze_biking_conditions(weather_data,
                             profile.min_temp_no_precip, profile.min_temp_with_precip,
                             profile.ride_in_snow)
    /\ pc' = "analyzed"
    /\ UNCHANGED <<home, provider, weather_data, profile, city_result, rankerVars,
                   driveVars, dailyVars, webVars>>

\* result = check_city_weather(city, home_lat, home_lon)
CheckCity ==
    /\ pc = "analyzed"
    /\ \E city_info \in {DRIVEABLE_CITIES[1], AIRPORT_CITIES[1]} :
          city_result' = check_city_weather(city_info, home.lat, home.lon, provider)
    /\ pc' = "checked"
    /\ UNCHANGED <<home, provider, weather_data, profile, biking_windows, rankerVars,
                   driveVars, dailyVars, webVars>>

\* estimate_drive_time has not been called
DriveIdle == miles = 0 /\ drive_time = ""

\* no batch is running and the table is empty
DailyIdle ==
    /\ db = <<>>
    /\ subscribers = <<>>
    /\ sub_idx = 1
    /\ mail_log = <<>>
    /\ html = NoneVal

\* no web request has been handled and no row was ever inserted
WebIdle == serial = 0 /\ web_log = <<>>

DefaultProfile ==
    [min_temp_no_precip |-> MIN_TEMP_NO_PRECIP, min_temp_with_precip |-> MIN_TEMP_WITH_PRECIP,
     ride_in_snow |-> FALSE]

Init ==
    /\ home = [lat |-> 409584, lon |-> -738085]
    /\ provider \in ProviderOutcomes
    /\ profile \in Profiles
    /\ weather_data = NoneVal
    /\ pc = "start"
    /\ biking_windows = NoneVal
    /\ city_result = NoneVal
    /\ rpc = "idle"
    /\ idx = 1
    /\ drive_destinations = <<>>
    /\ fly_destinations = <<>>
    /\ calls = <<>>
    /\ responses = <<>>
    /\ travel = NoneVal
    /\ DriveIdle
    /\ DailyIdle
    /\ WebIdle

Next == Fetch \/ Analyze \/ CheckCity

Spec == Init /\ [][Next]_vars

----------------------------------------------------------------------------
(* A ranking pass: find_travel_destinations(home_lat, home_lon) *)

RankInit ==
    /\ home \in Homes
    /\ provider = ProviderError
    /\ profile = DefaultProfile
    /\ weather_data = NoneVal
    /\ pc = "idle"
    /\ biking_windows = NoneVal
    /\ city_result = NoneVal
    /\ rpc = "drive"
    /\ idx = 1
    /\ drive_destinations = <<>>
    /\ fly_destinations = <<>>
    /\ calls = <<>>
    /\ responses = <<>>
    /\ travel = NoneVal
    /\ DriveIdle
    /\ DailyIdle
    /\ WebIdle

RankNext == DriveStep \/ FlyStep \/ SortReturn

SpecRank == RankInit /\ [][RankNext]_vars

----------------------------------------------------------------------------
(* Drive times: estimate_drive_time(distance_miles) called with a whole
   number of miles, and check_city_weather building a Destination Result
   for a catalog entry whose forecast has suitable days *)

MaxMiles == 120

\* every entry of the two catalogs
CatalogEntries ==
    {DRIVEABLE_CITIES[i] : i \in 1..Len(DRIVEABLE_CITIES)}
      \cup {AIRPORT_CITIES[i] : i \in 1..Len(AIRPORT_CITIES)}

\* drive_time = estimate_drive_time(distance_miles)
EstimateDriveTime ==
    /\ pc = "drive"
    /\ \E distance_miles \in 0..MaxMiles :
          /\ miles' = distance_miles
          /\ drive_time' = estimate_drive_time(100 * distance_miles)
    /\ pc' = "estimated"
    /\ UNCHANGED <<home, provider, weather_data, profile, biking_windows, city_result,
                   rankerVars, dailyVars, webVars>>

\* result = check_city_weather(city, home_lat, home_lon), for any catalog entry
CheckCatalogCity ==
    /\ pc = "drive"
    /\ \E city_info \in CatalogEntries :
          city_result' = check_city_weather(city_info, home.lat, home.lon, provider)
    /\ pc' = "checked"
    /\ UNCHANGED <<home, provider, weather_data, profile, biking_windows, rankerVars,
                   driveVars, dailyVars, webVars>>

DriveInit ==
    /\ home \in Homes
    /\ provider \in RankOutcomes
    /\ profile = DefaultProfile
    /\ weather_data = NoneVal
    /\ pc = "drive"
    /\ biking_windows = NoneVal
    /\ city_result = NoneVal
    /\ rpc = "idle"
    /\ idx = 1
    /\ drive_destinations = <<>>
    /\ fly_destinations = <<>>
    /\ calls = <<>>
    /\ responses = <<>>
    /\ travel = NoneVal
    /\ DriveIdle
    /\ DailyIdle
    /\ WebIdle

DriveNext == EstimateDriveTime \/ CheckCatalogCity

SpecDrive == DriveInit /\ [][DriveNext]_vars

----------------------------------------------------------------------------
(* generate_email_report *)

\* The report is held as the sequence of the blocks appended to html, each
\* with its tag and the values interpolated into it; styles and fixed
\* wording other than headings are left out.

\* max(day['windows'], key=lambda w: w['feels_like']): the first of the warmest
Warmest(windows) ==
    LET i == CHOOSE i \in 1..Len(windows) :
                 /\ \A k \in 1..Len(windows) : windows[k].feels_like <= windows[i].feels_like
                 /\ \A k \in 1..(i - 1) : windows[k].feels_like < windows[i].feels_like
    IN  windows[i]

\* the block of one day of the loop over biking_windows
DayBlock(day) ==
    IF day.has_suitable_time
    THEN [tag |-> "day", header |-> day.day_name, date |-> day.date, class |-> "suitable",
          slots |-> day.suitable_count,
          windows |-> SelectSeq(day.windows, LAMBDA window : window.is_suitable)]
    ELSE [tag |-> "day", header |-> day.day_name, date |-> day.date, class |-> "unsuitable",
          slots |-> 0,
          windows |-> IF day.windows # <<>> THEN <<Warmest(day.windows)>> ELSE <<>>]

\* the summary after the loop; days is the parameter biking_windows
SummaryBlocks(days) ==
    LET good == SelectSeq(days, LAMBDA day : day.has_suitable_time)
        good_days == [i \in 1..Len(good) |-> good[i].day_name]
    IN  IF good_days # <<>>
        THEN <<[tag |-> "h2", text |-> "Summary"],
               [tag |-> "p", text |-> "Good days to ride", good_days |-> good_days]>>
        ELSE <<[tag |-> "h2", text |-> "Summary"],
               [tag |-> "p", text |-> "No ideal biking conditions in the next 5 days"]>>

\* one table of the travel section and, for drives, the highlighted closest one
DriveBlocks(drive_options) ==
    IF drive_options # <<>>
    THEN <<[tag |-> "h3", text |-> "Closest Drives"]>>
           \o [i \in 1..Len(drive_options) |->
                  [tag |-> "tr", city |-> drive_options[i].city, state |-> drive_options[i].state,
                   cell |-> drive_options[i].drive_time,
                   suitable_days |-> drive_options[i].suitable_days,
                   best_temp |-> Round(drive_options[i].best_temp)]]
           \o <<[tag |-> "div", text |-> "Closest Drive", city |-> drive_options[1].city,
                 state |-> drive_options[1].state, cell |-> drive_options[1].drive_time,
                 suitable_days |-> drive_options[1].suitable_days,
                 best_temp |-> Round(drive_options[1].best_temp)]>>
    ELSE <<>>

FlyBlocks(fly_options) ==
    IF fly_options # <<>>
    THEN <<[tag |-> "h3", text |-> "Fly & Ride"]>>
           \o [i \in 1..Len(fly_options) |->
                  [tag |-> "tr", city |-> fly_options[i].city, state |-> fly_options[i].state,
                   cell |-> fly_options[i].airport,
                   suitable_days |-> fly_options[i].suitable_days,
                   best_temp |-> Round(fly_options[i].best_temp)]]
    ELSE <<>>

\* "if travel_destinations:" and what it appends
TravelBlocks(travel_destinations) ==
    IF Truthy(travel_destinations)
    THEN LET drive_options == IF Has(travel_destinations, "drive")
                              THEN travel_destinations.drive ELSE <<>>
             fly_options == IF Has(travel_destinations, "fly")
                            THEN travel_destinations.fly ELSE <<>>
         IN  IF drive_options # <<>> \/ fly_options # <<>>
             THEN <<[tag |-> "h2", text |-> "Travel to Ride"]>>
                    \o DriveBlocks(drive_options) \o FlyBlocks(fly_options)
             ELSE <<>>
    ELSE <<>>

generate_email_report(days, city, state, travel_destinations, min_temp_no_precip, min_temp_with_precip, ride_in_snow) ==
    <<[tag |-> "h1", text |-> "Bike Weather Report"],
      [tag |-> "p", city |-> city, state |-> state],
      [tag |-> "legend", min_temp_no_precip |-> min_temp_no_precip,
       min_temp_with_precip |-> min_temp_with_precip, snow_note |-> ride_in_snow]>>
      \o [d \in 1..Len(days) |-> DayBlock(days[d])]
      \o SummaryBlocks(days)
      \o TravelBlocks(travel_destinations)
      \o <<[tag |-> "p", text |-> "Generated by Bike Weather Checker"]>>

----------------------------------------------------------------------------
(* send_email *)

\* what resend.Emails.send does: a response carrying the id of the accepted
\* message, a response without one, an exception
DeliveryOutcomes ==
    { [response |-> [id |-> "49a3999c"]],
      [response |-> [message |-> "rejected"]],
      [error |-> "ResendError"] }

\* variant: any response counts as sent
SendEmailAnyResponse(delivery) == ~Has(delivery, "error")

\* response.get('id') is not None, and False from the except clause
send_email(delivery) ==
    IF Has(delivery, "error") THEN FALSE
    ELSE Has(delivery.response, "id")

----------------------------------------------------------------------------
(* The daily batch: send_daily_emails() over a subscribers table *)

NumSubscribers == 2

\* a TIMESTAMP: the run's datetime.now() values are 1, 2, ... in the order
\* they are taken, stored ones are earlier
Stamp(n) == [at |-> n]

\* row id of the table, the columns the batch reads; a NULL number is held
\* as 0, which "or" treats alike.  Odd ids live in Eastchester, have no
\* preferences stored and were never mailed; even ids live in Charlotte, have
\* their own preferences and were mailed before.
Row(id, verified) ==
    [id |-> id,
     email |-> "rider" \o ToString(id) \o "@example.com",
     city |-> IF id % 2 = 1 THEN "Eastchester" ELSE "Charlotte",
     state |-> IF id % 2 = 1 THEN "NY" ELSE "NC",
     lat |-> IF id % 2 = 1 THEN 409584 ELSE 352271,
     lon |-> IF id % 2 = 1 THEN -738085 ELSE -808431,
     verified |-> verified,
     min_temp_no_precip |-> IF id % 2 = 1 THEN 0 ELSE 40,
     min_temp_with_precip |-> IF id % 2 = 1 THEN 0 ELSE 50,
     ride_in_snow |-> IF id % 2 = 1 THEN 0 ELSE 1,
     settings_token |-> "settings-" \o ToString(id),
     unsubscribe_token |-> "unsubscribe-" \o ToString(id),
     last_email_sent |-> IF id % 2 = 1 THEN NoneVal ELSE Stamp(0)]

\* the tables of NumSubscribers rows with ids 1, 2, ...: each row verified
\* or not
Tables ==
    { [id \in 1..NumSubscribers |-> Row(id, verified[id])] :
          verified \in [1..NumSubscribers -> {0, 1}] }

\* value or default, for a number
OrDefault(value, default) == IF value = 0 THEN default ELSE value

\* what the provider answers during one subscriber's iteration: as in a
\* ranking pass, or a forecast with a suitable day and an unsuitable one, or
\* a forecast whose sample has no 'weather'
DailyAnswers ==
    RankOutcomes
      \cup { [json |-> Forecast(<<Sample(12, 450, <<Condition(Clear, "clear sky")>>),
                                  Sample(24 + 12, 325, <<Condition(Clear, "clear sky")>>)>>)],
             [json |-> Forecast(<<NoWeather(12, 450)>>)] }

\* the outcome of an UPDATE and its commit
DbOutcomes == {"ok", "OperationalError"}

\* one loop of find_travel_destinations when every lookup gets `answer`: the
\* results appended
Destinations(catalog, home_lat, home_lon, answer) ==
    LET results == [i \in 1..Len(catalog) |->
                       check_city_weather(catalog[i], home_lat, home_lon, answer).val]
        found == SelectSeq(results, LAMBDA result : ~IsNone(result))
    IN  found

\* find_travel_destinations(home_lat, home_lon) when every lookup gets
\* `answer`: the first check that raises ends it
find_travel_destinations(home_lat, home_lon, answer) ==
    LET first == check_city_weather(DriveCatalog[1], home_lat, home_lon, answer)
    IN  IF first.exc # "none" THEN Raise(first.exc)
        ELSE Ok([drive |-> Top3(SortByDistance(
                               Destinations(DriveCatalog, home_lat, home_lon, answer))),
                 fly |-> Top3(SortByDistance(
                               Destinations(FlyCatalog, home_lat, home_lon, answer)))])

\* UPDATE subscribers SET last_email_sent = %s WHERE id = %s
UpdateLastEmailSent(table, now, id) ==
    [i \in 1..Len(table) |->
        IF table[i].id = id THEN [table[i] EXCEPT !.last_email_sent = now] ELSE table[i]]

\* variant: the SELECT without its WHERE clause
AllRows(table) == table

\* SELECT * FROM subscribers WHERE verified = 1, in table order
VerifiedRows(table) == SelectSeq(table, LAMBDA row : row.verified = 1)

\* the SELECT and subscribers = cur.fetchall()
SelectVerified ==
    /\ pc = "select"
    /\ subscribers' = VerifiedRows(db)
    /\ sub_idx' = 1
    /\ pc' = "loop"
    /\ UNCHANGED <<home, profile, classifierVarsButPc, rankerVars, driveVars, db, mail_log, html,
                   webVars>>

\* one iteration of "for sub in subscribers": the try body and its except
SendToSubscriber ==
    /\ pc = "loop"
    /\ sub_idx <= Len(subscribers)
    /\ LET sub == subscribers[sub_idx]
           min_temp_no_precip == OrDefault(sub.min_temp_no_precip, 33)
           min_temp_with_precip == OrDefault(sub.min_temp_with_precip, 45)
           ride_in_snow == sub.ride_in_snow # 0
       IN  \E city_answer \in DailyAnswers :
           \E travel_destinations \in {find_travel_destinations(sub.lat, sub.lon, city_answer)} :
               \E answer \in DailyAnswers, delivery \in DeliveryOutcomes, stored \in DbOutcomes :
               LET fetched == get_weather_forecast(answer).val
                   windows == analyze_biking_conditions(fetched, min_temp_no_precip,
                                  min_temp_with_precip, ride_in_snow)
                   report == generate_email_report(windows.val, sub.city, sub.state,
                                 travel_destinations.val, min_temp_no_precip,
                                 min_temp_with_precip, ride_in_snow)
                   sent == send_email(delivery)
               IN  /\ home' = [lat |-> sub.lat, lon |-> sub.lon]
                   /\ profile' = [min_temp_no_precip |-> min_temp_no_precip,
                                  min_temp_with_precip |-> min_temp_with_precip,
                                  ride_in_snow |-> ride_in_snow]
                   /\ provider' = answer
                   /\ weather_data' = fetched
                   /\ biking_windows' = windows
                   /\ IF windows.exc # "none"
                      THEN /\ mail_log' = Append(mail_log,
                                  [id |-> sub.id, delivery |-> NoneVal, outcome |-> "error"])
                           /\ UNCHANGED <<travel, html, db>>
                      ELSE IF travel_destinations.exc # "none"
                      THEN /\ mail_log' = Append(mail_log,
                                  [id |-> sub.id, delivery |-> NoneVal, outcome |-> "error"])
                           /\ UNCHANGED <<travel, html, db>>
                      ELSE /\ travel' = travel_destinations.val
                           /\ html' = report
                           /\ IF ~sent
                              THEN /\ mail_log' = Append(mail_log,
                                          [id |-> sub.id, delivery |-> delivery,
                                           outcome |-> "failed"])
                                   /\ UNCHANGED db
                              ELSE IF stored # "ok"
                              THEN /\ mail_log' = Append(mail_log,
                                          [id |-> sub.id, delivery |-> delivery,
                                           outcome |-> "error"])
                                   /\ UNCHANGED db
                              ELSE /\ mail_log' = Append(mail_log,
                                          [id |-> sub.id, delivery |-> delivery,
                                           outcome |-> "sent"])
                                   /\ db' = UpdateLastEmailSent(db,
                                                Stamp(Len(mail_log) + 1), sub.id)
    /\ sub_idx' = sub_idx + 1
    /\ UNCHANGED <<pc, city_result, rpc, idx, drive_destinations, fly_destinations,
                   calls, responses, driveVars, subscribers, webVars>>

\* conn.close() after the loop
CloseBatch ==
    /\ pc = "loop"
    /\ sub_idx > Len(subscribers)
    /\ pc' = "complete"
    /\ UNCHANGED <<home, profile, classifierVarsButPc, rankerVars, driveVars, dailyVars, webVars>>

DailyInit ==
    /\ home = [lat |-> 409584, lon |-> -738085]
    /\ provider = ProviderError
    /\ profile = DefaultProfile
    /\ weather_data = NoneVal
    /\ pc = "select"
    /\ biking_windows = NoneVal
    /\ city_result = NoneVal
    /\ rpc = "idle"
    /\ idx = 1
    /\ drive_destinations = <<>>
    /\ fly_destinations = <<>>
    /\ calls = <<>>
    /\ responses = <<>>
    /\ travel = NoneVal
    /\ DriveIdle
    /\ db \in Tables
    /\ subscribers = <<>>
    /\ sub_idx = 1
    /\ mail_log = <<>>
    /\ html = NoneVal
    /\ WebIdle

DailyNext == SelectVerified \/ SendToSubscriber \/ CloseBatch

SpecDaily == DailyInit /\ [][DailyNext]_vars

----------------------------------------------------------------------------
(* The web handlers: subscribe, unsubscribe, settings *)

\* the requests one behaviour handles
MaxRequests == 2

\* str.strip() of a text whose only whitespace is blanks
RECURSIVE Strip(_)
Strip(s) ==
    IF s = <<>> THEN s
    ELSE IF s[1] = " " THEN Strip(Tail(s))
    ELSE IF s[Len(s)] = " " THEN Strip(SubSeq(s, 1, Len(s) - 1))
    ELSE s

\* request.form.get(key, default)
FormGet(form, key, default) == IF Has(form, key) THEN form[key] ELSE default

Digits == <<"0", "1", "2", "3", "4", "5", "6", "7", "8", "9">>

IsDigit(c) == \E i \in 1..Len(Digits) : Digits[i] = c

DigitValue(c) == (CHOOSE i \in 1..Len(Digits) : Digits[i] = c) - 1

RECURSIVE DecimalValue(_)
DecimalValue(s) ==
    IF s = <<>> THEN 0
    ELSE 10 * DecimalValue(SubSeq(s, 1, Len(s) - 1)) + DigitValue(s[Len(s)])

\* int(request.form.get(key, default)): the default is a number already, a
\* text of decimal digits is its value, any other text of the form raises
FormInt(form, key, default) ==
    IF ~Has(form, key) THEN Ok(default)
    ELSE IF form[key] # <<>> /\ \A i \in 1..Len(form[key]) : IsDigit(form[key][i])
    THEN Ok(DecimalValue(form[key]))
    ELSE Raise("ValueError")

\* texts a visitor types
Eastchester == <<"E", "a", "s", "t", "c", "h", "e", "s", "t", "e", "r">>
Charlotte == <<"C", "h", "a", "r", "l", "o", "t", "t", "e">>
NY == <<"N", "Y">>
NC == <<"N", "C">>

\* the posted subscribe forms: the same address in two spellings, a second
\* address, fields left out or blank, a preference that is not a number
SubscribeForms ==
    { [email |-> <<"A", "@", "x">>, city |-> Eastchester, state |-> NY],
      [email |-> <<" ", "a", "@", "x", " ">>, city |-> Charlotte, state |-> NC,
       zip_code |-> <<"2", "8", "2", "0", "2">>,
       min_temp_no_precip |-> <<"4", "0">>, min_temp_with_precip |-> <<"5", "0">>,
       ride_in_snow |-> <<"o", "n">>],
      [email |-> <<"b", "@", "x">>, city |-> <<" ", "E", "a", "s", "t", "c", "h">>,
       state |-> NY, zip_code |-> <<"1", "0", "7", "0", "9">>,
       min_temp_no_precip |-> <<"2", "8">>],
      [email |-> <<"b", "@", "x">>, city |-> Eastchester, state |-> NY,
       min_temp_with_precip |-> <<"w", "a", "r", "m">>],
      [email |-> <<" ">>, city |-> Eastchester, state |-> NY],
      [email |-> <<"a", "@", "x">>, city |-> Charlotte, state |-> <<>>] }

\* what the geocoding service does for one request: the zip endpoint fails
\* or answers a status and a document, the direct endpoint fails or answers
\* a status and a list of matches
GeoOutcomes ==
    { [zip |-> [status |-> 200, json |-> [lat |-> 352271, lon |-> -808431, name |-> Charlotte]],
       direct |-> [status |-> 200, json |-> <<>>]],
      [zip |-> [status |-> 200, json |-> [name |-> Eastchester]],
       direct |-> [status |-> 200, json |-> <<[lat |-> 409584, lon |-> -738085, name |-> Eastchester]>>]],
      [zip |-> [status |-> 404, json |-> [message |-> "not found"]],
       direct |-> [status |-> 200, json |-> <<[lat |-> 409584, lon |-> -738085]>>]],
      [zip |-> [error |-> "Timeout"],
       direct |-> [status |-> 200, json |-> <<>>]],
      [zip |-> [status |-> 404, json |-> [message |-> "not found"]],
       direct |-> [error |-> "ConnectionError"]] }

\* geocode_location(city, state, zip_code): the tuple (lat, lon, name) as a
\* record in which a None component is an absent field
geocode_location(city, state, zip_code, geo) ==
    IF zip_code # <<>> /\ ~Has(geo.zip, "error") /\ geo.zip.status = 200
    THEN LET data == geo.zip.json
             place == [k \in DOMAIN data \cap {"lat", "lon"} |-> data[k]]
         IN  place @@ [name |-> FormGet(data, "name", city)]
    ELSE IF /\ ~Has(geo.direct, "error")
            /\ geo.direct.status = 200
            /\ geo.direct.json # <<>>
            /\ Has(geo.direct.json[1], "lat")
            /\ Has(geo.direct.json[1], "lon")
    THEN LET data == geo.direct.json
         IN  [lat |-> data[1].lat, lon |-> data[1].lon,
              name |-> FormGet(data[1], "name", city)]
    ELSE [k \in {} |-> NoneVal]

\* lat is None or lon is None
NotLocated(place) == ~Has(place, "lat") \/ ~Has(place, "lon")

\* secrets.token_urlsafe(32): a text no earlier request was given
Token(kind, n) == kind \o "-" \o ToString(n)

\* variant: the table without the UNIQUE constraint on email
InsertSubscriberNoUnique(table, row) == Ok(Append(table, row))

\* INSERT INTO subscribers under email TEXT UNIQUE NOT NULL
InsertSubscriber(table, row) ==
    IF \E i \in 1..Len(table) : table[i].email = row.email
    THEN Raise("IntegrityError")
    ELSE Ok(Append(table, row))

\* DELETE FROM subscribers WHERE unsubscribe_token = %s
DeleteByUnsubscribeToken(table, token) ==
    SelectSeq(table, LAMBDA row : row.unsubscribe_token # token)

\* the response of a handler: what it flashed, and the delivery of the mail
\* it sent (None when it sent none); status 500 is an exception that left
\* the handler
Response(handler, email, status, flash, welcome) ==
    [handler |-> handler, email |-> email, status |-> status, flash |-> flash,
     welcome |-> welcome]

\* subscribe() up to conn.commit(): the form, the geocoder, the INSERT and
\* the except clause
Subscribe ==
    /\ pc = "idle"
    /\ Len(web_log) < MaxRequests
    /\ \E form \in SubscribeForms, geo \in GeoOutcomes :
       LET email == Lower(Strip(FormGet(form, "email", <<>>)))
           city == Strip(FormGet(form, "city", <<>>))
           state == Strip(FormGet(form, "state", <<>>))
           zip_code == Strip(FormGet(form, "zip_code", <<>>))
           min_temp_no_precip == FormInt(form, "min_temp_no_precip", 33)
           min_temp_with_precip == FormInt(form, "min_temp_with_precip", 45)
           ride_in_snow == IF FormGet(form, "ride_in_snow", <<>>) # <<>> THEN 1 ELSE 0
           place == geocode_location(city, state, zip_code, geo)
           resolved_city == FormGet(place, "name", <<>>)
           row == [id |-> serial + 1,
                   email |-> email,
                   city |-> IF resolved_city # <<>> THEN resolved_city ELSE city,
                   state |-> state,
                   zip_code |-> zip_code,
                   lat |-> place.lat,
                   lon |-> place.lon,
                   verified |-> 1,
                   verification_token |-> Token("verification", serial + 1),
                   unsubscribe_token |-> Token("unsubscribe", serial + 1),
                   last_email_sent |-> NoneVal,
                   min_temp_no_precip |-> min_temp_no_precip.val,
                   min_temp_with_precip |-> min_temp_with_precip.val,
                   ride_in_snow |-> ride_in_snow,
                   settings_token |-> Token("settings", serial + 1)]
           inserted == InsertSubscriber(db, row)
       IN  IF min_temp_no_precip.exc # "none" \/ min_temp_with_precip.exc # "none"
           THEN /\ web_log' = Append(web_log,
                       Response("subscribe", email, 500, "ValueError", NoneVal))
                /\ UNCHANGED <<pc, db, serial>>
           ELSE IF email = <<>> \/ city = <<>> \/ state = <<>>
           THEN /\ web_log' = Append(web_log,
                       Response("subscribe", email, 302,
                                "Please fill in all required fields.", NoneVal))
                /\ UNCHANGED <<pc, db, serial>>
           ELSE IF NotLocated(place)
           THEN /\ web_log' = Append(web_log,
                       Response("subscribe", email, 302,
                                "Could not find that location.", NoneVal))
                /\ UNCHANGED <<pc, db, serial>>
           ELSE IF inserted.exc # "none"
           THEN /\ web_log' = Append(web_log,
                       Response("subscribe", email, 302,
                                "You're already subscribed!", NoneVal))
                /\ serial' = serial + 1
                /\ UNCHANGED <<pc, db>>
           ELSE /\ db' = inserted.val
                /\ serial' = serial + 1
                /\ pc' = "welcome"
                /\ UNCHANGED web_log
    /\ UNCHANGED <<home, profile, classifierVarsButPc, rankerVars, driveVars,
                   subscribers, sub_idx, mail_log, html>>

\* the row of the request being handled: the one the last INSERT made
Inserted(table, id) == SelectSeq(table, LAMBDA row : row.id = id)

\* variant: every exception after the INSERT rolls the row back
WelcomeRollbackOnError(table, id, failed) ==
    IF failed THEN SelectSeq(table, LAMBDA row : row.id # id) ELSE table

\* the table when the request ends: the INSERT was committed before the
\* welcome report, nothing after the commit writes
AfterWelcome(table, id, failed) == table

\* what the provider answers while the welcome report is built: a failure,
\* a forecast with a suitable day, a forecast whose sample has no 'weather'
WelcomeAnswers ==
    { ProviderError,
      [json |-> Forecast(<<Sample(12, 450, <<Condition(Clear, "clear sky")>>)>>)],
      [json |-> Forecast(<<NoWeather(12, 450)>>)] }

\* subscribe() after conn.commit(): the forecast, the analysis, the ranking,
\* the report and send_email, then the flash or the exception, and finally
\* conn.close().  The report is a local of the handler and is not kept.
SubscribeWelcome ==
    /\ pc = "welcome"
    /\ LET sub == Inserted(db, serial)[1]
       IN  \E city_answer \in WelcomeAnswers :
           \E travel_destinations \in {find_travel_destinations(sub.lat, sub.lon, city_answer)} :
               \E answer \in WelcomeAnswers, delivery \in DeliveryOutcomes :
               LET fetched == get_weather_forecast(answer).val
                   windows == analyze_biking_conditions(fetched, sub.min_temp_no_precip,
                                  sub.min_temp_with_precip, sub.ride_in_snow # 0)
                   email_sent == send_email(delivery)
                   failed == windows.exc # "none" \/ travel_destinations.exc # "none"
               IN  /\ web_log' = Append(web_log,
                          IF windows.exc # "none"
                          THEN Response("subscribe", sub.email, 500, windows.exc, NoneVal)
                          ELSE IF travel_destinations.exc # "none"
                          THEN Response("subscribe", sub.email, 500,
                                        travel_destinations.exc, NoneVal)
                          ELSE IF email_sent
                          THEN Response("subscribe", sub.email, 302,
                                        "You're all set!", delivery)
                          ELSE Response("subscribe", sub.email, 302,
                                        "Your first email will arrive shortly.", delivery))
                   /\ db' = AfterWelcome(db, serial, failed)
    /\ pc' = "idle"
    /\ UNCHANGED <<home, profile, classifierVarsButPc, rankerVars, driveVars,
                   subscribers, sub_idx, mail_log, html, serial>>

\* the links a visitor can follow: the ones mailed to a subscriber, and one
\* that matches no row
UnsubscribeLinks == {db[i].unsubscribe_token : i \in 1..Len(db)} \cup {"unsubscribe-0"}

\* unsubscribe(token)
Unsubscribe ==
    /\ pc = "idle"
    /\ Len(web_log) < MaxRequests
    /\ \E token \in UnsubscribeLinks :
       LET result == SelectSeq(db, LAMBDA row : row.unsubscribe_token = token)
       IN  IF result # <<>>
           THEN /\ db' = DeleteByUnsubscribeToken(db, token)
                /\ web_log' = Append(web_log,
                       Response("unsubscribe", result[1].email, 302,
                                "You've been unsubscribed.", NoneVal))
           ELSE /\ web_log' = Append(web_log,
                       Response("unsubscribe", <<>>, 302,
                                "Invalid unsubscribe link.", NoneVal))
                /\ UNCHANGED db
    /\ UNCHANGED <<home, profile, classifierVarsButPc, pc, rankerVars, driveVars,
                   subscribers, sub_idx, mail_log, html, serial>>

\* the posted settings forms
SettingsForms ==
    { [city |-> Eastchester, state |-> NY],
      [city |-> Charlotte, state |-> NC, zip_code |-> <<"2", "8", "2", "0", "2">>,
       min_temp_no_precip |-> <<"4", "0">>, min_temp_with_precip |-> <<"5", "0">>,
       ride_in_snow |-> <<"o", "n">>],
      [city |-> Eastchester, state |-> NY, min_temp_no_precip |-> <<"2", "0">>,
       ride_in_snow |-> <<"o", "n">>],
      [city |-> Charlotte, state |-> NC, min_temp_with_precip |-> <<"w", "a", "r", "m">>] }

\* the links a visitor can follow to the settings page
SettingsLinks == {db[i].settings_token : i \in 1..Len(db)} \cup {"settings-0"}

\* city != subscriber['city'] or state != subscriber['state']
\*   or zip_code != (subscriber['zip_code'] or '')
LocationChanged(subscriber, city, state, zip_code) ==
    city # subscriber.city \/ state # subscriber.state \/ zip_code # subscriber.zip_code

\* variant: a location the geocoder cannot find keeps the stored coordinates
SettingsLocationKeepCoordinates(subscriber, city, place) ==
    IF place = NoneVal \/ NotLocated(place)
    THEN [city |-> city, lat |-> subscriber.lat, lon |-> subscriber.lon]
    ELSE [city |-> IF place.name # <<>> THEN place.name ELSE city,
          lat |-> place.lat, lon |-> place.lon]

\* the city, lat and lon settings() goes on to write, None when it returns
\* before the UPDATE; `place` is what geocode_location returned, None when
\* it was not called
SettingsLocation(subscriber, city, place) ==
    IF place = NoneVal
    THEN [city |-> city, lat |-> subscriber.lat, lon |-> subscriber.lon]
    ELSE IF NotLocated(place) THEN NoneVal
    ELSE [city |-> IF place.name # <<>> THEN place.name ELSE city,
          lat |-> place.lat, lon |-> place.lon]

\* UPDATE subscribers SET city, state, zip_code, lat, lon and the three
\* preferences WHERE settings_token = %s
UpdateSettings(table, token, values) ==
    [i \in 1..Len(table) |->
        IF table[i].settings_token = token
        THEN [table[i] EXCEPT !.city = values.city, !.state = values.state,
                              !.zip_code = values.zip_code,
                              !.lat = values.lat, !.lon = values.lon,
                              !.min_temp_no_precip = values.min_temp_no_precip,
                              !.min_temp_with_precip = values.min_temp_with_precip,
                              !.ride_in_snow = values.ride_in_snow]
        ELSE table[i]]

\* the response of settings(): the link followed, the method, and what
\* geocode_location returned (None when it was not called)
SettingsResponse(token, method, status, flash, geocoded) ==
    [handler |-> "settings", token |-> token, method |-> method, status |-> status,
     flash |-> flash, geocoded |-> geocoded]

\* settings(token), GET or POST
Settings ==
    /\ pc = "idle"
    /\ Len(web_log) < MaxRequests
    /\ \E token \in SettingsLinks, method \in {"GET", "POST"} :
       \E form \in IF method = "POST" THEN SettingsForms ELSE {<<>>} :
       \E geo \in IF method = "POST" THEN GeoOutcomes ELSE {<<>>} :
       LET found == SelectSeq(db, LAMBDA row : row.settings_token = token)
           subscriber == found[1]
           city == Strip(FormGet(form, "city", <<>>))
           state == Strip(FormGet(form, "state", <<>>))
           zip_code == Strip(FormGet(form, "zip_code", <<>>))
           min_temp_no_precip == FormInt(form, "min_temp_no_precip", 33)
           min_temp_with_precip == FormInt(form, "min_temp_with_precip", 45)
           ride_in_snow == IF FormGet(form, "ride_in_snow", <<>>) # <<>> THEN 1 ELSE 0
           place == IF LocationChanged(subscriber, city, state, zip_code)
                    THEN geocode_location(city, state, zip_code, geo)
                    ELSE NoneVal
           location == SettingsLocation(subscriber, city, place)
       IN  IF found = <<>>
           THEN /\ web_log' = Append(web_log,
                       SettingsResponse(token, method, 302, "Invalid settings link.",
                                        NoneVal))
                /\ UNCHANGED db
           ELSE IF method = "GET"
           THEN /\ web_log' = Append(web_log,
                       SettingsResponse(token, method, 200, "", NoneVal))
                /\ UNCHANGED db
           ELSE IF min_temp_no_precip.exc # "none" \/ min_temp_with_precip.exc # "none"
           THEN /\ web_log' = Append(web_log,
                       SettingsResponse(token, method, 500, "ValueError", NoneVal))
                /\ UNCHANGED db
           ELSE IF location = NoneVal
           THEN /\ web_log' = Append(web_log,
                       SettingsResponse(token, method, 200,
                                        "Could not find that location.", place))
                /\ UNCHANGED db
           ELSE /\ db' = UpdateSettings(db, token,
                             [city |-> location.city, state |-> state,
                              zip_code |-> zip_code,
                              lat |-> location.lat, lon |-> location.lon,
                              min_temp_no_precip |-> min_temp_no_precip.val,
                              min_temp_with_precip |-> min_temp_with_precip.val,
                              ride_in_snow |-> ride_in_snow])
                /\ web_log' = Append(web_log,
                       SettingsResponse(token, method, 200,
                                        "Your settings have been updated!", place))
    /\ UNCHANGED <<home, profile, classifierVarsButPc, pc, rankerVars, driveVars,
                   subscribers, sub_idx, mail_log, html, serial>>

WebInit ==
    /\ home = [lat |-> 409584, lon |-> -738085]
    /\ provider = ProviderError
    /\ profile = DefaultProfile
    /\ weather_data = NoneVal
    /\ pc = "idle"
    /\ biking_windows = NoneVal
    /\ city_result = NoneVal
    /\ rpc = "idle"
    /\ idx = 1
    /\ drive_destinations = <<>>
    /\ fly_destinations = <<>>
    /\ calls = <<>>
    /\ responses = <<>>
    /\ travel = NoneVal
    /\ DriveIdle
    /\ db = <<>>
    /\ subscribers = <<>>
    /\ sub_idx = 1
    /\ mail_log = <<>>
    /\ html = NoneVal
    /\ WebIdle

WebNext == Subscribe \/ SubscribeWelcome \/ Unsubscribe \/ Settings

SpecWeb == WebInit /\ [][WebNext]_vars

----------------------------------------------------------------------------
(* Properties of the classifier, under Spec *)

\* analyze_biking_conditions has returned a list
Analyzed == pc \in {"analyzed", "checked"} /\ biking_windows.exc = "none"

\* the samples of the document that was classified
InputList ==
    IF Truthy(weather_data) /\ Has(weather_data, "list") THEN weather_data.list ELSE <<>>

\* the input samples of one date whose hour is in [6, 19), in input order
RetainedOn(date) ==
    SelectSeq(InputList,
              LAMBDA f : DateOf(f.dt) = date /\ HourOf(f.dt) >= 6 /\ HourOf(f.dt) < 19)

\* the (day, window, sample) triples of the result: the k-th window of a day
\* is built from the k-th retained sample of its date
Judged ==
    UNION { { [w |-> biking_windows.val[d].windows[k],
               f |-> RetainedOn(biking_windows.val[d].date)[k]] :
                 k \in 1..Len(biking_windows.val[d].windows) } :
            d \in 1..Len(biking_windows.val) }

\* C1: no sample whose hour is outside [6, 19) is in any day's windows or is
\* counted in suitable_count; every sample at an hour in [6, 19), hour 6
\* included, is in its day's windows, and a sample at hour 19 is not.
C1_OutsideHoursExcluded ==
    Analyzed =>
        \A d \in 1..Len(biking_windows.val) :
            LET day == biking_windows.val[d]
                retained == RetainedOn(day.date)
            IN  /\ Len(day.windows) = Len(retained)
                /\ \A k \in 1..Len(day.windows) :
                      /\ day.windows[k].hour = HourOf(retained[k].dt)
                      /\ day.windows[k].hour >= 6
                      /\ day.windows[k].hour < 19
                /\ day.suitable_count =
                      Cardinality({k \in 1..Len(day.windows) : day.windows[k].is_suitable})

\* C1 witness: a document with a sample at hour 19 and a sample at hour 6 of
\* the same date was classified, and the day holds the hour-6 window alone
C1_Witness ==
    /\ Analyzed
    /\ \E i, j \in 1..Len(InputList) :
          /\ HourOf(InputList[i].dt) = 19
          /\ HourOf(InputList[j].dt) = 6
          /\ DateOf(InputList[i].dt) = DateOf(InputList[j].dt)
    /\ \E d \in 1..Len(biking_windows.val) :
          /\ Len(biking_windows.val[d].windows) = 1
          /\ biking_windows.val[d].windows[1].hour = 6

\* C2: a window classified as snow is unsuitable when ride_in_snow is false,
\* whatever the temperature and the thresholds; with ride_in_snow true it is
\* suitable exactly when feels_like >= min_temp_with_precip.
C2_SnowVeto ==
    Analyzed =>
        \A j \in Judged :
            j.w.precip_type = "snow" =>
                IF profile.ride_in_snow
                THEN j.w.is_suitable <=>
                         j.f.main.feels_like >= 10 * profile.min_temp_with_precip
                ELSE ~j.w.is_suitable

\* C2 witness: a snow window at or above both thresholds, judged unsuitable
\* for a rider who does not ride in snow
C2_Witness ==
    /\ Analyzed
    /\ ~profile.ride_in_snow
    /\ \E j \in Judged :
          /\ j.w.precip_type = "snow"
          /\ j.f.main.feels_like >= 10 * profile.min_temp_with_precip
          /\ j.f.main.feels_like >= 10 * profile.min_temp_no_precip
          /\ ~j.w.is_suitable

\* C3: a window classified as rain is suitable exactly when feels_like >=
\* min_temp_with_precip, a window without precipitation exactly when
\* feels_like >= min_temp_no_precip; equality is suitable.
C3_ThresholdByPrecip ==
    Analyzed =>
        \A j \in Judged :
            /\ j.w.precip_type = "rain" =>
                  (j.w.is_suitable <=>
                      j.f.main.feels_like >= 10 * profile.min_temp_with_precip)
            /\ j.w.precip_type = "None" =>
                  (j.w.is_suitable <=>
                      j.f.main.feels_like >= 10 * profile.min_temp_no_precip)

\* C3 witness: a rain window exactly at min_temp_with_precip and below
\* min_temp_no_precip, judged suitable
C3_Witness ==
    /\ Analyzed
    /\ \E j \in Judged :
          /\ j.w.precip_type = "rain"
          /\ j.f.main.feels_like = 10 * profile.min_temp_with_precip
          /\ j.f.main.feels_like < 10 * profile.min_temp_no_precip
          /\ j.w.is_suitable

\* the condition text of a sample names no precipitation
TextNamesNoPrecip(f) ==
    LET text == IF f.weather # <<>> THEN Lower(f.weather[1].main) ELSE <<>>
    IN  ~Contains(rain, text) /\ ~Contains(drizzle, text) /\ ~Contains(snow, text)

\* a window judged as no precipitation, against min_temp_no_precip
JudgedDry(j) ==
    /\ ~j.w.has_precip
    /\ j.w.precip_type = "None"
    /\ j.w.is_suitable <=> j.f.main.feels_like >= 10 * profile.min_temp_no_precip

\* C4 as stated: a sample whose condition text contains none of 'rain',
\* 'drizzle', 'snow' is classified as no precipitation and judged against
\* min_temp_no_precip, whatever other fields it carries.
C4_TextOnly ==
    Analyzed =>
        \A j \in Judged : TextNamesNoPrecip(j.f) => JudgedDry(j)

\* C4 amended: a sample whose condition text contains none of 'rain',
\* 'drizzle', 'snow' and that carries neither a 'rain' nor a 'snow' field is
\* classified as no precipitation and judged against min_temp_no_precip.
C4_TextAndFields ==
    Analyzed =>
        \A j \in Judged :
            (TextNamesNoPrecip(j.f) /\ ~Has(j.f, "rain") /\ ~Has(j.f, "snow"))
                => JudgedDry(j)

\* C4 witness: a sample with an empty condition list and no precipitation
\* field, classified as no precipitation and suitable at min_temp_no_precip
C4_Witness ==
    /\ Analyzed
    /\ \E j \in Judged :
          /\ j.f.weather = <<>>
          /\ ~Has(j.f, "rain") /\ ~Has(j.f, "snow")
          /\ j.f.main.feels_like = 10 * profile.min_temp_no_precip
          /\ j.f.main.feels_like < 10 * profile.min_temp_with_precip
          /\ j.w.precip_type = "None"
          /\ j.w.is_suitable

\* C5: for None, a mapping without a 'list' key and an empty 'list' the
\* classifier returns the empty list and raises nothing.
C5_NoDataEmptyResult ==
    pc \in {"analyzed", "checked"} =>
        ((IsNone(weather_data) \/ ~Has(weather_data, "list") \/ weather_data.list = <<>>)
            => biking_windows = Ok(<<>>))

\* C5 witness: the provider failed, None was classified, the result is []
C5_Witness ==
    /\ pc = "analyzed"
    /\ Has(provider, "error")
    /\ IsNone(weather_data)
    /\ biking_windows = Ok(<<>>)

----------------------------------------------------------------------------
(* Properties of the city check, under Spec *)

\* check_city_weather has returned (None or a Destination Result)
Checked == pc = "checked" /\ city_result.exc = "none"

\* the samples of the provider's answer, as check_city_weather reads them
CityList ==
    IF Has(provider, "json") /\ Truthy(provider.json) /\ Has(provider.json, "list")
    THEN provider.json.list ELSE <<>>

InHours(f) == HourOf(f.dt) >= 6 /\ HourOf(f.dt) < 19

\* suitability of a sample under the thresholds the ranker applies
RankerSuitable(f) ==
    LET text == IF f.weather # <<>> THEN Lower(f.weather[1].main) ELSE <<>>
        precip == Contains(rain, text) \/ Contains(drizzle, text) \/ Contains(snow, text)
    IN  /\ f.main.feels_like >= 10 * (IF precip THEN 45 ELSE 33)
        /\ ~Contains(snow, text)

CitySuitableDays == IF IsNone(city_result.val) THEN 0 ELSE city_result.val.suitable_days

\* C8 as stated: a candidate's suitable_days is the number of Day Judgments
\* with has_suitable_time that analyze_biking_conditions returns for the
\* candidate's forecast under the rider's profile.
C8_RiderProfileApplied ==
    (Checked /\ biking_windows.exc = "none") =>
        CitySuitableDays =
            Cardinality({d \in 1..Len(biking_windows.val) :
                            biking_windows.val[d].has_suitable_time})

\* the in-window samples of the candidate's forecast
CityRetained == {i \in 1..Len(CityList) : InHours(CityList[i])}

\* the dates with at least one suitable in-window sample
CitySuitableDates ==
    {DateOf(CityList[i].dt) : i \in {k \in CityRetained : RankerSuitable(CityList[k])}}

\* C9 as stated: best_temp is the maximum feels_like over the candidate's
\* in-window samples that are themselves suitable.
C9_BestOfSuitableSamples ==
    (Checked /\ ~IsNone(city_result.val)) =>
        city_result.val.best_temp =
            Max({CityList[i].main.feels_like :
                    i \in {k \in CityRetained : RankerSuitable(CityList[k])}})

\* C9 amended: best_temp is the maximum feels_like over all in-window samples,
\* suitable or not, of the dates that have at least one suitable in-window
\* sample.
C9_BestOfSuitableDays ==
    (Checked /\ ~IsNone(city_result.val)) =>
        city_result.val.best_temp =
            Max({CityList[i].main.feels_like :
                    i \in {k \in CityRetained : DateOf(CityList[k].dt) \in CitySuitableDates}})

\* C9 witness: a result whose best_temp is the temperature of an unsuitable
\* sample, above every suitable sample of the forecast
C9_Witness ==
    /\ Checked
    /\ ~IsNone(city_result.val)
    /\ \E i \in CityRetained :
          /\ ~RankerSuitable(CityList[i])
          /\ CityList[i].main.feels_like = city_result.val.best_temp
    /\ \A i \in CityRetained :
          RankerSuitable(CityList[i]) =>
              CityList[i].main.feels_like < city_result.val.best_temp

----------------------------------------------------------------------------
(* Properties of the ranking pass, under SpecRank *)

Tiers == {"drive", "fly"}

\* the candidates of one tier for which check_city_weather returned a result
Qualifying(tier) == SelectSeq(responses, LAMBDA r : r.tier = tier /\ ~IsNone(r.result))

\* the provider's answer holds a suitable in-window sample
SuitableSomewhere(outcome) ==
    /\ Has(outcome, "json")
    /\ Truthy(outcome.json)
    /\ Has(outcome.json, "list")
    /\ \E i \in 1..Len(outcome.json.list) :
          InHours(outcome.json.list[i]) /\ RankerSuitable(outcome.json.list[i])

\* C6: no candidate without a suitable in-window sample is returned in either
\* tier: check_city_weather returns None for it, and every Destination Result
\* has suitable_days >= 1.
C6_NoUnsuitableCandidate ==
    /\ \A i \in 1..Len(responses) :
          /\ ~SuitableSomewhere(responses[i].outcome) => IsNone(responses[i].result)
          /\ ~IsNone(responses[i].result) => responses[i].result.suitable_days >= 1
    /\ rpc = "done" =>
          \A tier \in Tiers : \A k \in 1..Len(travel[tier]) :
              /\ travel[tier][k].suitable_days >= 1
              /\ \E i \in 1..Len(responses) :
                    /\ responses[i].tier = tier
                    /\ responses[i].city = travel[tier][k].city
                    /\ SuitableSomewhere(responses[i].outcome)

\* C6 witness: a pass returned destinations, and a candidate whose forecast
\* holds no suitable sample is not among them
C6_Witness ==
    /\ rpc = "done"
    /\ travel.drive # <<>>
    /\ \E i \in 1..Len(responses) :
          /\ responses[i].tier = "drive"
          /\ Has(responses[i].outcome, "json")
          /\ ~SuitableSomewhere(responses[i].outcome)
          /\ \A k \in 1..Len(travel.drive) : travel.drive[k].city # responses[i].city

\* C7: each tier's list is the first min(3, k) of its k qualifying candidates
\* in ascending distance_miles: at most 3 long, non-decreasing in distance,
\* and no qualifying candidate left out is strictly closer than one returned.
C7_ClosestThree ==
    rpc = "done" =>
        \A tier \in Tiers :
            LET out == travel[tier]
                qual == Qualifying(tier)
                returned == {out[k].city : k \in 1..Len(out)}
            IN  /\ Len(out) = IF Len(qual) < 3 THEN Len(qual) ELSE 3
                /\ Cardinality(returned) = Len(out)
                /\ \A k \in 1..Len(out) : \E i \in 1..Len(qual) : qual[i].result = out[k]
                /\ \A k \in 1..(Len(out) - 1) :
                      out[k].distance_miles <= out[k + 1].distance_miles
                /\ \A i \in 1..Len(qual) :
                      qual[i].city \notin returned =>
                          \A k \in 1..Len(out) :
                              ~(qual[i].result.distance_miles < out[k].distance_miles)

\* C7 witness: four drivable candidates qualified, three were returned, and
\* they are not the first three in catalog order
C7_Witness ==
    /\ rpc = "done"
    /\ Len(Qualifying("drive")) = 4
    /\ Len(travel.drive) = 3
    /\ travel.drive # <<Qualifying("drive")[1].result, Qualifying("drive")[2].result,
                        Qualifying("drive")[3].result>>

\* the results of the candidates of a tier whose lookup did not fail
ResultsWithoutFailed(tier) ==
    LET kept == SelectSeq(responses,
                    LAMBDA r : r.tier = tier /\ ~Has(r.outcome, "error") /\ ~IsNone(r.result))
    IN  [k \in 1..Len(kept) |-> kept[k].result]

\* the cities looked up so far, in call order
LookedUp ==
    LET gets == SelectSeq(calls, LAMBDA c : c.op = "get_weather_forecast")
    IN  [k \in 1..Len(gets) |-> gets[k].city]

CatalogCities ==
    [k \in 1..(NumDrive + NumFly) |->
        IF k <= NumDrive THEN DriveCatalog[k].city ELSE FlyCatalog[k - NumDrive].city]

\* C10: a candidate whose lookup fails is absent from the result, the pass
\* does not abort, every later candidate of both tiers is still looked up,
\* and the result is the ranking of the candidates whose lookup did not fail.
C10_FailureDropsOneCandidate ==
    /\ rpc # "raised"
    /\ \A i \in 1..Len(responses) :
          Has(responses[i].outcome, "error") => IsNone(responses[i].result)
    /\ rpc = "done" =>
          /\ LookedUp = CatalogCities
          /\ \A tier \in Tiers :
                /\ travel[tier] = Top3(SortByDistance(ResultsWithoutFailed(tier)))
                /\ \A i \in 1..Len(responses) :
                      (responses[i].tier = tier /\ Has(responses[i].outcome, "error")) =>
                          \A k \in 1..Len(travel[tier]) :
                              travel[tier][k].city # responses[i].city

\* C10 witness: the first drivable lookup failed, a later drivable and a
\* flyable candidate were looked up after it and are in the returned lists
C10_Witness ==
    /\ rpc = "done"
    /\ Has(responses[1].outcome, "error")
    /\ \E k \in 1..Len(travel.drive) : travel.drive[k].city = DriveCatalog[NumDrive].city
    /\ travel.fly # <<>>

----------------------------------------------------------------------------
(* Properties of the handling of malformed payloads, under Spec *)

\* a payload with a 'list' one of whose entries lacks 'dt', 'main' or 'weather'
MalformedPayload(data) ==
    /\ Truthy(data)
    /\ Has(data, "list")
    /\ \E i \in 1..Len(data.list) :
          \/ ~Has(data.list[i], "dt")
          \/ ~Has(data.list[i], "main")
          \/ ~Has(data.list[i], "weather")

\* C11 as stated: for every payload the provider returns, a malformed one
\* included, neither the classifier nor the candidate check of the ranking
\* pass raises; a malformed payload gives the empty list and an excluded
\* candidate.
C11_NoExceptionSurfaced ==
    /\ pc \in {"analyzed", "checked"} =>
          /\ biking_windows.exc = "none"
          /\ MalformedPayload(weather_data) => biking_windows.val = <<>>
    /\ pc = "checked" =>
          /\ city_result.exc = "none"
          /\ (Has(provider, "json") /\ MalformedPayload(provider.json)) =>
                IsNone(city_result.val)

\* a sample without weather-condition data: the 'weather' field is missing or
\* an empty list, and no precipitation volume is reported
AbsentWeather(f) ==
    /\ ~Has(f, "weather") \/ f.weather = <<>>
    /\ ~Has(f, "rain")
    /\ ~Has(f, "snow")

\* C12 as stated: an in-window sample without weather-condition data does not
\* make the classifier fail: it is in its day's windows with has_precip
\* false and an empty description, judged against min_temp_no_precip.
C12_AbsentWeatherDefaulted ==
    pc \in {"analyzed", "checked"} =>
        \A i \in 1..Len(InputList) :
            LET f == InputList[i]
            IN  (Has(f, "dt") /\ Has(f, "main") /\ InHours(f) /\ AbsentWeather(f)) =>
                    /\ biking_windows.exc = "none"
                    /\ \E j \in Judged :
                          /\ j.f = f
                          /\ ~j.w.has_precip
                          /\ j.w.precip_type = "None"
                          /\ j.w.weather = ""
                          /\ j.w.is_suitable <=>
                                f.main.feels_like >= 10 * profile.min_temp_no_precip

----------------------------------------------------------------------------
(* Pacing of the ranking pass, under SpecRank *)

\* the positions of the provider lookups in the log of external calls
LookupPositions == {i \in 1..Len(calls) : calls[i].op = "get_weather_forecast"}

\* one lookup per catalog entry so far, the drivable entries in catalog order
\* and then the flyable ones; a sleep between any two successive lookups; the
\* loops are left exactly when the last catalog entry has been looked up
PacedSerialLookups ==
    /\ Len(LookedUp) <= NumDrive + NumFly
    /\ \A k \in 1..Len(LookedUp) : LookedUp[k] = CatalogCities[k]
    /\ \A i, j \in LookupPositions :
          i < j => \E k \in (i + 1)..(j - 1) : calls[k].op = "sleep"
    /\ rpc \in {"sort", "done"} <=> Len(LookedUp) = NumDrive + NumFly

\* a loop that has not ended is at the catalog entry after the last one
\* looked up, so its next iteration can run
LoopCanProceed ==
    /\ rpc = "drive" => (idx = Len(LookedUp) + 1 /\ idx <= NumDrive)
    /\ rpc = "fly" => (idx = Len(LookedUp) - NumDrive + 1 /\ idx <= NumFly)

\* the steps the pass has left: one per catalog entry not yet looked up, and
\* the sort and return
StepsLeft ==
    (NumDrive + NumFly - Len(LookedUp)) + (IF rpc = "done" THEN 0 ELSE 1)

----------------------------------------------------------------------------
(* Grouping by date and the snow override, under Spec *)

\* the calendar dates of the input samples
InputDates == {DateOf(InputList[i].dt) : i \in 1..Len(InputList)}

\* the position of the first input sample of a date, in or out of the window
FirstSeen(date) ==
    CHOOSE i \in 1..Len(InputList) :
        /\ DateOf(InputList[i].dt) = date
        /\ \A k \in 1..(i - 1) : DateOf(InputList[k].dt) # date

\* C14: the returned list holds each calendar date at most once, its Day
\* Judgments are in the order in which their dates are first seen in the
\* input (not sorted), whatever the input order, and the windows of a Day
\* Judgment are those of its date's retained samples in input order.
C14_FirstSeenOrder ==
    Analyzed =>
        LET out == biking_windows.val
        IN  /\ \A d \in 1..Len(out) : out[d].date \in InputDates
            /\ \A a, b \in 1..Len(out) :
                  a < b => /\ out[a].date # out[b].date
                           /\ FirstSeen(out[a].date) < FirstSeen(out[b].date)
            /\ \A d \in 1..Len(out) :
                  LET retained == RetainedOn(out[d].date)
                  IN  out[d].windows =
                          [k \in 1..Len(retained) |->
                              Window(retained[k], profile.min_temp_no_precip,
                                     profile.min_temp_with_precip, profile.ride_in_snow)]

\* C14 witness: the input is not in time order; the later date, seen first,
\* comes first in the result, and the earlier date's windows are in input
\* order, the later hour first
C14_Witness ==
    /\ Analyzed
    /\ Len(biking_windows.val) = 2
    /\ biking_windows.val[1].date > biking_windows.val[2].date
    /\ Len(biking_windows.val[2].windows) = 2
    /\ biking_windows.val[2].windows[1].hour > biking_windows.val[2].windows[2].hour

\* C15: a date all of whose samples are outside the ride window has no Day
\* Judgment; a date with an in-window sample has exactly one, whose windows
\* are not empty, whose suitable_count is the number of its suitable
\* windows, and whose has_suitable_time is true exactly when suitable_count
\* is positive.
C15_OneJudgmentPerRetainedDate ==
    Analyzed =>
        LET out == biking_windows.val
        IN  /\ \A date \in InputDates :
                  Cardinality({d \in 1..Len(out) : out[d].date = date}) =
                      IF RetainedOn(date) = <<>> THEN 0 ELSE 1
            /\ \A d \in 1..Len(out) :
                  /\ out[d].windows # <<>>
                  /\ out[d].suitable_count =
                        Cardinality({k \in 1..Len(out[d].windows) :
                                        out[d].windows[k].is_suitable})
                  /\ out[d].has_suitable_time <=> out[d].suitable_count > 0

\* C15 witness: of two input dates one has only an out-of-window sample and
\* no Day Judgment; the other has one, with two windows of which one is
\* suitable
C15_Witness ==
    /\ Analyzed
    /\ Cardinality(InputDates) = 2
    /\ \E date \in InputDates : RetainedOn(date) = <<>>
    /\ Len(biking_windows.val) = 1
    /\ Len(biking_windows.val[1].windows) = 2
    /\ biking_windows.val[1].suitable_count = 1
    /\ biking_windows.val[1].has_suitable_time

\* the sample carries a rain or drizzle marker: in its condition text or as
\* its 'rain' field
RainMarker(f) ==
    LET text == IF f.weather # <<>> THEN Lower(f.weather[1].main) ELSE <<>>
    IN  Contains(rain, text) \/ Contains(drizzle, text) \/ Has(f, "rain")

\* the sample carries a snow marker: in its condition text or as its 'snow'
\* field
SnowMarker(f) ==
    LET text == IF f.weather # <<>> THEN Lower(f.weather[1].main) ELSE <<>>
    IN  Contains(snow, text) \/ Has(f, "snow")

\* C16: a sample that carries both a rain or drizzle marker and a snow marker
\* is classified as snow, so with ride_in_snow false it is unsuitable at
\* every temperature.
C16_SnowOverridesRain ==
    Analyzed =>
        \A j \in Judged :
            (RainMarker(j.f) /\ SnowMarker(j.f)) =>
                /\ j.w.has_precip
                /\ j.w.precip_type = "snow"
                /\ ~profile.ride_in_snow => ~j.w.is_suitable

\* C16 witness: a sample whose text says rain and that has a 'snow' field,
\* at or above both thresholds, classified as snow and unsuitable for a
\* rider who does not ride in snow
C16_Witness ==
    /\ Analyzed
    /\ ~profile.ride_in_snow
    /\ \E j \in Judged :
          /\ j.f.weather # <<>>
          /\ Contains(rain, Lower(j.f.weather[1].main))
          /\ Has(j.f, "snow")
          /\ j.f.main.feels_like >= 10 * profile.min_temp_with_precip
          /\ j.f.main.feels_like >= 10 * profile.min_temp_no_precip
          /\ j.w.precip_type = "snow"
          /\ ~j.w.is_suitable

----------------------------------------------------------------------------
(* Properties of the daily batch, under SpecDaily *)

\* the current subscriber's report was generated: biking_windows, travel and
\* html are the arguments and the result of one generate_email_report call
ReportGenerated ==
    /\ mail_log # <<>>
    /\ mail_log[Len(mail_log)].delivery # NoneVal

TravelSectionShown ==
    \E i \in 1..Len(html) : html[i] = [tag |-> "h2", text |-> "Travel to Ride"]

\* C17 as stated: when travel_destinations holds at least one destination,
\* the report has the 'Travel to Ride' section exactly when some day of
\* biking_windows has has_suitable_time false.
C17_TravelOnlyWhenSomeDayUnsuitable ==
    ReportGenerated /\ (travel.drive # <<>> \/ travel.fly # <<>>) =>
        (TravelSectionShown <=>
            \E d \in 1..Len(biking_windows.val) : ~biking_windows.val[d].has_suitable_time)

\* the provider accepted the message of log entry k
Accepted(entry) ==
    /\ Has(entry.delivery, "response")
    /\ Has(entry.delivery.response, "id")

\* C20: a row of the table changes only in the iteration of the subscriber
\* with that id, only when the provider accepted that subscriber's message,
\* and only in last_email_sent; so a row stamped during the run belongs to
\* a subscriber whose send succeeded, and a failed send or a raised step
\* leaves the table as it was.
C20_StampOnlyAfterOwnSend ==
    /\ [](\A i \in 1..Len(db) :
            db[i].last_email_sent \notin {NoneVal, Stamp(0)} =>
                \E k \in 1..Len(mail_log) :
                    /\ db[i].last_email_sent = Stamp(k)
                    /\ mail_log[k].id = db[i].id
                    /\ Accepted(mail_log[k])
                    /\ send_email(mail_log[k].delivery))
    /\ [][\A i \in 1..Len(db) :
            db'[i] # db[i] =>
                /\ pc = "loop"
                /\ subscribers[sub_idx].id = db[i].id
                /\ mail_log'[Len(mail_log')].id = db[i].id
                /\ Accepted(mail_log'[Len(mail_log')])
                /\ db'[i] = [db[i] EXCEPT !.last_email_sent = Stamp(Len(mail_log'))]]_vars

\* a finished batch over two verified subscribers: the first one's send
\* failed and its row is as before, the second one's succeeded and its row
\* is stamped
C20_Witness ==
    /\ pc = "complete"
    /\ Len(mail_log) = 2
    /\ mail_log[1].outcome = "failed"
    /\ mail_log[2].outcome = "sent"
    /\ db[mail_log[1].id].last_email_sent = NoneVal
    /\ db[mail_log[2].id].last_email_sent = Stamp(2)
    /\ mail_log[1].id # mail_log[2].id

\* the ids of the rows with verified = 1, in table order
VerifiedIds ==
    LET rows == SelectSeq(db, LAMBDA row : row.verified = 1)
    IN  [k \in 1..Len(rows) |-> rows[k].id]

\* the ids of the subscribers attempted so far, in order
AttemptedIds == [k \in 1..Len(mail_log) |-> mail_log[k].id]

\* a batch that has not finished can take its next step: the loop is at the
\* row after the last one attempted, where its body runs, or past the last
\* row, where the connection is closed
BatchCanProceed ==
    pc = "loop" => (sub_idx = Len(mail_log) + 1 /\ sub_idx <= Len(subscribers) + 1)

\* the steps the batch has left: the SELECT, one per verified row not yet
\* attempted, the close
BatchStepsLeft ==
    IF pc = "select" THEN Len(VerifiedIds) + 2
    ELSE IF pc = "loop" THEN Len(VerifiedIds) - Len(mail_log) + 1
    ELSE 0

\* C21: the subscribers attempted so far are the first verified rows, in
\* table order and each once, whatever the outcome of the attempts before;
\* a finished batch has attempted every verified row and no other; and the
\* batch reaches completion: until then it can take its next step, every
\* step lowers the number of steps left, which is never negative, and the
\* batch is complete when none is left.
C21_EveryVerifiedOnceToCompletion ==
    /\ [](/\ Len(AttemptedIds) <= Len(VerifiedIds)
          /\ AttemptedIds = SubSeq(VerifiedIds, 1, Len(AttemptedIds))
          /\ pc = "complete" => AttemptedIds = VerifiedIds)
    /\ [](BatchCanProceed /\ BatchStepsLeft >= 0 /\ (BatchStepsLeft = 0 <=> pc = "complete"))
    /\ [][BatchStepsLeft' < BatchStepsLeft]_vars

\* a finished batch whose first attempt raised and whose second was sent
C21_Witness ==
    /\ pc = "complete"
    /\ Len(mail_log) = 2
    /\ mail_log[1].outcome = "error"
    /\ mail_log[1].delivery = NoneVal
    /\ mail_log[2].outcome = "sent"

----------------------------------------------------------------------------
(* Drive times, under SpecDrive *)

\* C18 as stated: for a whole number of miles d, estimate_drive_time(d) is
\* floor(d * 60 / 50) minutes written as hours and minutes, the zero
\* component omitted; and the drive_time of a Destination Result is the
\* estimate for the distance it reports as distance_miles.
C18_WholeMinutesOfReportedDistance ==
    /\ pc = "estimated" =>
          LET minutes == (miles * 60) \div 50
          IN  drive_time = FormatDriveTime(minutes \div 60, minutes % 60)
    /\ pc = "checked" /\ city_result.exc = "none" /\ ~IsNone(city_result.val) =>
          city_result.val.drive_time
              = estimate_drive_time(100 * city_result.val.distance_miles)

----------------------------------------------------------------------------
(* The candidate catalog *)

\* C19 as stated: the catalog a ranking pass draws its candidates from has at
\* least 30 drivable entries and at least 15 flyable entries.
C19_CatalogVariety ==
    rpc \in {"drive", "fly", "sort", "done"} =>
        /\ Len(DRIVEABLE_CITIES) >= 30
        /\ Len(AIRPORT_CITIES) >= 15

----------------------------------------------------------------------------
(* Properties of the web handlers, under SpecWeb *)

\* the response the step wrote, when it wrote one
Answered == web_log' # web_log

LastResponse == web_log'[Len(web_log')]

\* a step of subscribe() out of which the request's address can be read:
\* either it answered, or it inserted and goes on to the welcome report
SubscribeStep ==
    /\ pc = "idle"
    /\ \/ pc' = "welcome"
       \/ Answered /\ LastResponse.handler = "subscribe"

RequestedEmail ==
    IF pc' = "welcome" THEN Inserted(db', serial')[1].email ELSE LastResponse.email

HasRow(table, email) == \E i \in 1..Len(table) : Lower(table[i].email) = email

\* C22: the table never holds two rows whose lower-cased emails are equal,
\* and a subscribe request for an address that already has a row leaves the
\* table as it was, does not go on to the welcome report and answers without
\* having sent a mail.
C22_OneRowPerEmail ==
    /\ [](\A i, j \in 1..Len(db) : Lower(db[i].email) = Lower(db[j].email) => i = j)
    /\ [][(SubscribeStep /\ HasRow(db, RequestedEmail))
             => /\ db' = db
                /\ pc' = "idle"
                /\ LastResponse.welcome = NoneVal]_vars

\* a second request for a subscribed address, spelled differently, was
\* turned down and the table holds the one row of the first
C22_Witness ==
    /\ pc = "idle"
    /\ Len(db) = 1
    /\ db[1].id = 1
    /\ Len(web_log) = 2
    /\ web_log[1].welcome # NoneVal
    /\ web_log[2].handler = "subscribe"
    /\ web_log[2].email = db[1].email
    /\ web_log[2].flash = "You're already subscribed!"
    /\ serial = 2

\* C23: while subscribe() builds and sends the welcome report, the row of its
\* INSERT is in the table; the step that does so leaves the table as it is
\* whatever its outcome (an exception of the analysis or of the ranking, a
\* delivery that failed, a delivery), so the row is there when the request
\* ends.
C23_RowCommittedBeforeWelcome ==
    /\ [](pc = "welcome" => Len(Inserted(db, serial)) = 1)
    /\ [][pc = "welcome"
             => /\ db' = db
                /\ Len(Inserted(db', serial')) = 1
                /\ Answered
                /\ LastResponse.handler = "subscribe"
                /\ LastResponse.email = Inserted(db', serial')[1].email]_vars

\* two requests subscribed: the welcome mail of the first was not delivered,
\* the second ended in an exception after its INSERT; both rows are stored
C23_Witness ==
    /\ pc = "idle"
    /\ Len(web_log) = 2
    /\ Len(db) = 2
    /\ web_log[1].handler = "subscribe"
    /\ web_log[1].status = 302
    /\ web_log[1].welcome # NoneVal
    /\ ~send_email(web_log[1].welcome)
    /\ web_log[1].email = db[1].email
    /\ web_log[2].handler = "subscribe"
    /\ web_log[2].status = 500
    /\ web_log[2].email = db[2].email

\* a step of settings()
SettingsStep == pc = "idle" /\ Answered /\ LastResponse.handler = "settings"

\* the link of the request matches no row
InvalidLink == \A i \in 1..Len(db) : db[i].settings_token # LastResponse.token

\* the request posted a location other than the stored one and
\* geocode_location returned no coordinates for it
Unresolved ==
    /\ LastResponse.method = "POST"
    /\ LastResponse.geocoded # NoneVal
    /\ NotLocated(LastResponse.geocoded)

\* C24: a settings request whose link matches no subscriber, or whose POST
\* changes the location to one the geocoder cannot resolve, leaves every row
\* of the table as it was: city, state, zip, coordinates and the three
\* preferences keep their values.
C24_FailedSettingsChangeNothing ==
    [][(SettingsStep /\ (InvalidLink \/ Unresolved)) => db' = db]_vars

\* a subscriber posted a changed location the geocoder did not resolve, and
\* the row is the one subscribe() stored
C24_Witness ==
    /\ Len(web_log) = 2
    /\ Len(db) = 1
    /\ web_log[2].handler = "settings"
    /\ web_log[2].method = "POST"
    /\ web_log[2].token = db[1].settings_token
    /\ web_log[2].geocoded # NoneVal
    /\ NotLocated(web_log[2].geocoded)
    /\ web_log[2].flash = "Could not find that location."
    /\ db[1].city = Eastchester
    /\ db[1].min_temp_no_precip = 33
    /\ db[1].ride_in_snow = 0

============================================================================
